---- MODULE Spec2Model ----
(***************************************************************************)
(* Model of the bulk loader (src/loader.py): one run of run_pipeline       *)
(* stages a CSV batch, upserts the dimensions, the listing master and the  *)
(* descriptions, applies the SCD-2 close/open transition to                *)
(* listing_version inside one transaction, then refreshes the              *)
(* materialized view listing_current outside the transaction.              *)
(*                                                                         *)
(* Text is a sequence of one-character strings, so that the SQL string     *)
(* functions (btrim, regexp_replace, lower, lpad, casts) are computed.     *)
(* A nullable SQL value is <<>> (NULL) or <<v>>.  Empty CSV text and SQL   *)
(* NULL are handled alike by every expression of the loader.               *)
(***************************************************************************)
EXTENDS Integers, Sequences, FiniteSets, TLC

\* ------------------------------------------------------------------ bounds

\* rows of one CSV batch
MaxRows == 2
\* runs of the pipeline
MaxLoads == 3

\* ------------------------------------------------------------- SQL values

Null == <<>>
Some(v) == <<v>>

SetMin(S) == CHOOSE x \in S : \A y \in S : x <= y
SetMax(S) == CHOOSE x \in S : \A y \in S : x >= y

RECURSIVE Pow10(_)
Pow10(n) == IF n = 0 THEN 1 ELSE 10 * Pow10(n - 1)

\* ------------------------------------------------------------ SQL strings

DigitChars == <<"0", "1", "2", "3", "4", "5", "6", "7", "8", "9">>
Digits == {DigitChars[i] : i \in 1..10}
DigitVal(c) == (CHOOSE i \in 1..10 : DigitChars[i] = c) - 1

UpperChars == <<"A", "B", "C", "D", "E", "F", "G", "H", "I", "J", "K", "L", "M",
                "N", "O", "P", "Q", "R", "S", "T", "U", "V", "W", "X", "Y", "Z">>
LowerChars == <<"a", "b", "c", "d", "e", "f", "g", "h", "i", "j", "k", "l", "m",
                "n", "o", "p", "q", "r", "s", "t", "u", "v", "w", "x", "y", "z">>

\* lower(): SQL lower() and Python str.lower() on the letters A-Z
lower(s) ==
  [i \in 1..Len(s) |->
     IF \E k \in 1..26 : UpperChars[k] = s[i]
     THEN LowerChars[CHOOSE k \in 1..26 : UpperChars[k] = s[i]]
     ELSE s[i]]

\* btrim(s): removes leading and trailing space characters (only spaces)
btrim(s) ==
  LET keep == {i \in 1..Len(s) : s[i] # " "}
  IN IF keep = {} THEN <<>> ELSE SubSeq(s, SetMin(keep), SetMax(keep))

\* s IS NULL OR btrim(s) = ''
IsBlank(s) == btrim(s) = <<>>

\* regexp_replace(s, '[^...]', '', 'g'): keeps the characters of the class
StripTo(s, keep) == SelectSeq(s, LAMBDA c : c \in keep)

\* lpad(s, n, '0')
RECURSIVE lpad0(_, _)
lpad0(s, n) == IF Len(s) >= n THEN SubSeq(s, 1, n) ELSE lpad0(<<"0">> \o s, n)

RECURSIVE DigitsToNat(_)
DigitsToNat(d) ==
  IF d = <<>> THEN 0
  ELSE 10 * DigitsToNat(SubSeq(d, 1, Len(d) - 1)) + DigitVal(d[Len(d)])

\* s ~ '^-?\d+(\.\d+)?$'
MatchesDecimal(s) ==
  LET body == IF s # <<>> /\ s[1] = "-" THEN Tail(s) ELSE s
      dots == {i \in 1..Len(body) : body[i] = "."}
  IN /\ body # <<>>
     /\ \A i \in 1..Len(body) : body[i] \in Digits \cup {"."}
     /\ Cardinality(dots) <= 1
     /\ \A i \in dots : i > 1 /\ i < Len(body)

\* text::numeric of a text that matches the decimal pattern: the exact value
\* m / 10^e as the pair <<m, e>> with the fraction's trailing zeros removed,
\* so that equal numbers are equal pairs (1.0 = 1).
RECURSIVE NormNumeric(_, _)
NormNumeric(m, e) ==
  IF e > 0 /\ m % 10 = 0 THEN NormNumeric(m \div 10, e - 1) ELSE <<m, e>>

ToNumeric(s) ==
  LET neg  == s[1] = "-"
      body == IF neg THEN Tail(s) ELSE s
      dots == {i \in 1..Len(body) : body[i] = "."}
      ip   == IF dots = {} THEN body ELSE SubSeq(body, 1, SetMin(dots) - 1)
      fp   == IF dots = {} THEN <<>> ELSE SubSeq(body, SetMin(dots) + 1, Len(body))
      abs  == NormNumeric(DigitsToNat(ip \o fp), Len(fp))
  IN <<IF neg THEN 0 - abs[1] ELSE abs[1], abs[2]>>

\* round(numeric): to the nearest integer, ties away from zero
NumRound(x) ==
  LET p == Pow10(x[2])
      a == IF x[1] < 0 THEN 0 - x[1] ELSE x[1]
      n == IF 2 * (a % p) >= p THEN (a \div p) + 1 ELSE a \div p
  IN IF x[1] < 0 THEN 0 - n ELSE n

NumChars == Digits \cup {".", "-"}
SmallintMax == 32767

\* the digits of a number without its leading zeros
RECURSIVE StripZeros(_)
StripZeros(d) == IF d # <<>> /\ d[1] = "0" THEN StripZeros(Tail(d)) ELSE d

\* a > b for two runs of digits without leading zeros
DigitsGreater(a, b) ==
  \/ Len(a) > Len(b)
  \/ /\ Len(a) = Len(b)
     /\ \E k \in 1..Len(a) :
          /\ DigitVal(a[k]) > DigitVal(b[k])
          /\ \A j \in 1..(k - 1) : a[j] = b[j]

\* the bounds of the type int, 2147483647 and -2147483648, as digits
IntMaxDigits == <<"2", "1", "4", "7", "4", "8", "3", "6", "4", "7">>
IntMinDigits == <<"2", "1", "4", "7", "4", "8", "3", "6", "4", "8">>

\* round(t::numeric)::int raises "integer out of range" for a text t that
\* matches the decimal pattern: the value rounded half away from zero lies
\* outside -2147483648..2147483647.  Decided on the digits, with no number
\* wider than 32 bits.
IntCastRaises(t) ==
  LET neg  == t[1] = "-"
      body == IF neg THEN Tail(t) ELSE t
      dots == {i \in 1..Len(body) : body[i] = "."}
      ip   == IF dots = {} THEN body ELSE SubSeq(body, 1, SetMin(dots) - 1)
      fp   == IF dots = {} THEN <<>> ELSE SubSeq(body, SetMin(dots) + 1, Len(body))
      up   == fp # <<>> /\ DigitVal(fp[1]) >= 5
      lim  == IF neg THEN IntMinDigits ELSE IntMaxDigits
  IN \/ DigitsGreater(StripZeros(ip), lim)
     \/ StripZeros(ip) = lim /\ up

\* --------------------------------------- SQL expression helpers (loader.py)

\* norm_zip_5: NULL when blank, else the digits of the text left-padded with
\* zeros to 5 when there are 1 to 5 of them, else NULL
norm_zip_5(s) ==
  IF IsBlank(s) THEN Null
  ELSE LET d == StripTo(s, Digits)
       IN IF Len(d) >= 1 /\ Len(d) <= 5 THEN Some(lpad0(d, 5)) ELSE Null

TruthyTokens == {<<"t", "r", "u", "e">>, <<"t">>, <<"1">>, <<"y", "e", "s">>,
                 <<"y">>, <<"o", "u", "i">>}
FalsyTokens == {<<"f", "a", "l", "s", "e">>, <<"f">>, <<"0">>, <<"n", "o">>,
                <<"n">>, <<"n", "o", "n">>}

\* bool_or_null: the token is lowered but not trimmed
bool_or_null(s) ==
  IF IsBlank(s) THEN Null
  ELSE IF lower(s) \in TruthyTokens THEN Some(TRUE)
  ELSE IF lower(s) \in FalsyTokens THEN Some(FALSE)
  ELSE Null

YearLo == 1800
YearHi == 2100

\* the cast ::int of the range test of year_1800_2100 raises "integer out
\* of range": the digits of the text denote more than 2147483647
year_1800_2100_raises(s) ==
  /\ ~IsBlank(s)
  /\ StripTo(s, Digits) # <<>>
  /\ IntCastRaises(StripTo(s, Digits))

\* year_1800_2100: every non-digit is removed before the range test (a text
\* whose cast raises has no value, see year_1800_2100_raises)
year_1800_2100(s) ==
  IF IsBlank(s) \/ year_1800_2100_raises(s) THEN Null
  ELSE LET d == StripTo(s, Digits)
       IN IF d # <<>> /\ DigitsToNat(d) >= YearLo /\ DigitsToNat(d) <= YearHi
          THEN Some(DigitsToNat(d)) ELSE Null

\* num_nonneg: characters other than digits, '.' and '-' are removed, then the
\* text must be a decimal number >= 0
num_nonneg(s) ==
  IF IsBlank(s) THEN Null
  ELSE LET t == StripTo(s, NumChars)
       IN IF MatchesDecimal(t) /\ ToNumeric(t)[1] >= 0
          THEN Some(ToNumeric(t)) ELSE Null

\* smallint_nonneg: rounded value when it is >= 0; the cast ::smallint of the
\* THEN branch has no upper range test before it
smallint_nonneg(s) ==
  IF IsBlank(s) THEN Null
  ELSE LET t == StripTo(s, NumChars)
       IN IF MatchesDecimal(t) /\ NumRound(ToNumeric(t)) >= 0
          THEN Some(NumRound(ToNumeric(t))) ELSE Null

\* the cast ::smallint raises "smallint out of range"
smallint_nonneg_raises(s) ==
  smallint_nonneg(s) # Null /\ smallint_nonneg(s)[1] > SmallintMax

FloorLo == 0 - 5
FloorHi == 300

\* the cast ::int of the range test of floor_bounded raises "integer out of
\* range"
floor_bounded_raises(s) ==
  /\ ~IsBlank(s)
  /\ MatchesDecimal(StripTo(s, NumChars))
  /\ IntCastRaises(StripTo(s, NumChars))

\* floor_bounded(lo, hi): rounded value when it lies in [lo, hi] (a text
\* whose cast raises has no value, see floor_bounded_raises)
floor_bounded(s, lo, hi) ==
  IF IsBlank(s) \/ floor_bounded_raises(s) THEN Null
  ELSE LET t == StripTo(s, NumChars)
       IN IF /\ MatchesDecimal(t)
             /\ NumRound(ToNumeric(t)) >= lo
             /\ NumRound(ToNumeric(t)) <= hi
          THEN Some(NumRound(ToNumeric(t))) ELSE Null

\* A timestamp literal is modelled as a non-empty run of digits that denotes
\* the instant of that number; any other non-empty text is not a timestamp.
IsTsLiteral(s) == s # <<>> /\ \A i \in 1..Len(s) : s[i] \in Digits

\* ts_or_null: NULLIF(s, '')::timestamptz, no trim and no tolerant parse
\* (a text that is no timestamp has no value: the cast raises, see
\* ts_or_null_raises)
ts_or_null(s) == IF s = <<>> \/ ~IsTsLiteral(s) THEN Null ELSE Some(DigitsToNat(s))

\* the cast ::timestamptz raises "invalid input syntax"
ts_or_null_raises(s) == s # <<>> /\ ~IsTsLiteral(s)

\* ------------------------------------------------------------- CSV header

EXPECTED ==
  <<"listing_id", "transaction_type", "item_type", "item_subtype",
    "start_date", "change_date",
    "price", "area", "site_area", "floor", "room_count", "balcony_count",
    "terrace_count", "terrace_area",
    "build_year", "is_new_construction", "has_passenger_lift", "has_cellar",
    "is_furnished",
    "city", "zipcode", "description_fr">>

\* A header cell is a column name in one of two spellings, <<name, "lower">>
\* or <<name, "UPPER">>; str.lower() maps both to the lower spelling.
HeaderLower(cell) == <<cell[1], "lower">>

\* assert_expected_headers: the expected names absent from the lowered header
MissingHeaders(cols) ==
  {c \in {EXPECTED[i] : i \in 1..Len(EXPECTED)} :
     ~\E k \in 1..Len(cols) : HeaderLower(cols[k]) = <<c, "lower">>}

\* assert_expected_headers that builds the mapping without the test of missing
assert_expected_headers_unchecked(cols) == FALSE

assert_expected_headers_raises(cols) == MissingHeaders(cols) # {}

\* ------------------------------------------------------------ CSV batches

BaseRow ==
  [listing_id |-> <<"A">>, transaction_type |-> <<"s">>, item_type |-> <<"h">>,
   item_subtype |-> <<"f">>, start_date |-> <<>>, change_date |-> <<"3">>,
   price |-> <<"1">>, area |-> <<"5">>, site_area |-> <<>>, floor |-> <<>>,
   room_count |-> <<>>, balcony_count |-> <<>>, terrace_count |-> <<>>,
   terrace_area |-> <<>>, build_year |-> <<>>, is_new_construction |-> <<>>,
   has_passenger_lift |-> <<>>, has_cellar |-> <<>>, is_furnished |-> <<>>,
   city |-> <<"p">>, zipcode |-> <<"7", "5", "0", "1">>, description_fr |-> <<>>]

\* The rows a batch is drawn from.  1-8: one listing under changing facts and
\* timestamps, a second listing, and a row of the first listing whose zip
\* does not resolve.  9-13: dimension codes in other spellings.  14-18:
\* malformed values.  19-23: descriptions of one listing, of trimmed lengths
\* 2, 3, 1, 2 and 0, two of them on rows whose zip does not resolve.  24: a
\* second listing that shares only the city and the zip with the first.
\* 25: the first listing with another master attribute and a later timestamp.
\* 26: the first listing with a negative year, a count just below zero and a
\* floor just above the range.  27: the first listing with a zip that does
\* not resolve, a description, another price and a later timestamp.
\* 28, 29: the first listing with a year and with a floor beyond the type
\* int.
AllRows ==
  << BaseRow,
     [BaseRow EXCEPT !.price = <<"2">>, !.change_date = <<"5">>],
     [BaseRow EXCEPT !.price = <<"2">>, !.change_date = <<"1">>],
     [BaseRow EXCEPT !.price = <<"2">>],
     [BaseRow EXCEPT !.price = <<"2">>, !.change_date = <<>>, !.start_date = <<"4">>],
     [BaseRow EXCEPT !.change_date = <<"7">>,
                     !.zipcode = <<"A", "B", "C", "D", "E">>],
     [BaseRow EXCEPT !.listing_id = <<"B">>],
     [BaseRow EXCEPT !.change_date = <<>>],
     [BaseRow EXCEPT !.listing_id = <<"B">>, !.transaction_type = <<"S">>],
     [BaseRow EXCEPT !.listing_id = <<"B">>, !.transaction_type = <<" ", "s", " ">>,
                     !.city = <<" ", "p">>],
     [BaseRow EXCEPT !.listing_id = <<"B">>, !.transaction_type = <<>>],
     [BaseRow EXCEPT !.listing_id = <<" ", "B">>,
                     !.zipcode = <<"0", "7", "5", "0", "1">>],
     [BaseRow EXCEPT !.listing_id = <<"B">>, !.item_type = <<"H">>],
     [BaseRow EXCEPT !.price = <<"x">>],
     [BaseRow EXCEPT !.price = <<"1", "x">>, !.area = <<"5", ".", "0">>],
     [BaseRow EXCEPT !.listing_id = <<"B">>, !.change_date = <<"x">>],
     [BaseRow EXCEPT !.listing_id = <<"B">>,
                     !.room_count = <<"4", "0", "0", "0", "0">>],
     [BaseRow EXCEPT !.price = <<"-", "1">>, !.floor = <<"9", "9", "9">>,
                     !.room_count = <<"2", ".", "5">>],
     [BaseRow EXCEPT !.description_fr = <<"a", "b">>],
     [BaseRow EXCEPT !.description_fr = <<"a", "b", "c">>,
                     !.zipcode = <<"A", "B", "C", "D", "E">>],
     [BaseRow EXCEPT !.description_fr = <<"d">>],
     [BaseRow EXCEPT !.description_fr = <<" ", "x", "y", " ">>,
                     !.zipcode = <<"A", "B", "C", "D", "E">>],
     [BaseRow EXCEPT !.description_fr = <<" ">>],
     [BaseRow EXCEPT !.listing_id = <<"B">>, !.transaction_type = <<"S">>,
                     !.item_type = <<"H">>],
     [BaseRow EXCEPT !.is_furnished = <<"o", "u", "i">>,
                     !.change_date = <<"5">>],
     [BaseRow EXCEPT !.build_year = <<"-", "1", "9", "0", "0">>,
                     !.room_count = <<"-", "0", ".", "4">>,
                     !.floor = <<"3", "0", "0", ".", "4">>],
     [BaseRow EXCEPT !.zipcode = <<"A", "B", "C", "D", "E">>,
                     !.description_fr = <<"g">>,
                     !.price = <<"2">>, !.change_date = <<"5">>],
     [BaseRow EXCEPT !.build_year =
        <<"9", "9", "9", "9", "9", "9", "9", "9", "9", "9", "9">>],
     [BaseRow EXCEPT !.floor =
        <<"9", "9", "9", "9", "9", "9", "9", "9", "9", "9", "9">>] >>

Families == {"history", "dimension", "malformed", "description"}

FamilyRows(f) ==
  IF f = "history" THEN 1..8
  ELSE IF f = "dimension" THEN {1} \cup 9..13 \cup {25}
  ELSE IF f = "malformed" THEN {1} \cup 14..18 \cup {26, 28, 29}
  ELSE 19..23 \cup {27}

\* a batch is a bag of rows: sequences of row numbers in non-decreasing order
Batches(f) ==
  UNION {{b \in [1..n -> FamilyRows(f)] : \A i \in 1..(n - 1) : b[i] <= b[i + 1]}
         : n \in 0..MaxRows}

Perms(n) == {o \in [1..n -> 1..n] : \A i, j \in 1..n : o[i] = o[j] => i = j}

\* the header lines a CSV may have: all columns in lower case, one column
\* spelled in upper case, or one column absent
FullHeader == [i \in 1..Len(EXPECTED) |-> <<EXPECTED[i], "lower">>]
Without(k) == SubSeq(FullHeader, 1, k - 1) \o SubSeq(FullHeader, k + 1, Len(FullHeader))
Headers ==
  << FullHeader,
     [FullHeader EXCEPT ![7] = <<EXPECTED[7], "UPPER">>],
     Without(1), Without(7), Without(22) >>

\* ------------------------------------------- the SQL's view of a staged row

\* the column taken as it is staged, without btrim
UntrimmedCode(s) == IF IsBlank(s) THEN Null ELSE Some(s)

\* btrim(col), NULL where col IS NULL OR btrim(col) = '': the code inserted
\* into a dimension and the code its join compares
TrimmedCode(s) == IF IsBlank(s) THEN Null ELSE Some(btrim(s))

\* a cast of the select list of stg_listing_incoming raises; COALESCE does
\* not evaluate start_ts when change_ts is present
IncomingRaises(r) ==
  \/ ts_or_null_raises(r.change_date)
  \/ r.change_date = <<>> /\ ts_or_null_raises(r.start_date)
  \/ floor_bounded_raises(r.floor)
  \/ smallint_nonneg_raises(r.room_count)
  \/ smallint_nonneg_raises(r.balcony_count)
  \/ smallint_nonneg_raises(r.terrace_count)

\* every expression that the statements of the loader evaluate on a row of
\* stg_clean_csv
StagedRow(r) ==
  [listing_id |-> TrimmedCode(r.listing_id),
   transaction_type |-> TrimmedCode(r.transaction_type),
   item_type |-> TrimmedCode(r.item_type),
   item_subtype |-> TrimmedCode(r.item_subtype),
   city |-> TrimmedCode(r.city),
   zipcode |-> norm_zip_5(r.zipcode),
   description_fr |-> TrimmedCode(r.description_fr),
   build_year |-> year_1800_2100(r.build_year),
   is_new_construction |-> bool_or_null(r.is_new_construction),
   has_passenger_lift |-> bool_or_null(r.has_passenger_lift),
   has_cellar |-> bool_or_null(r.has_cellar),
   is_furnished |-> bool_or_null(r.is_furnished),
   change_ts |-> ts_or_null(r.change_date),
   start_ts |-> ts_or_null(r.start_date),
   raises |-> IncomingRaises(r),
   year_raises |-> year_1800_2100_raises(r.build_year),
   price |-> num_nonneg(r.price),
   area |-> num_nonneg(r.area),
   site_area |-> num_nonneg(r.site_area),
   floor |-> floor_bounded(r.floor, FloorLo, FloorHi),
   room_count |-> smallint_nonneg(r.room_count),
   balcony_count |-> smallint_nonneg(r.balcony_count),
   terrace_count |-> smallint_nonneg(r.terrace_count),
   terrace_area |-> num_nonneg(r.terrace_area)]

Staged == [i \in 1..Len(AllRows) |-> StagedRow(AllRows[i])]

\* stg_clean_csv after COPY of batch b
RowsOf(b) == [i \in 1..Len(b) |-> Staged[b[i]]]

\* ------------------------------------------------------------------ tables

\* Compact(f, n): the values of the non-NULL entries f[1..n], in order
RECURSIVE Compact(_, _)
Compact(f, n) == IF n = 0 THEN <<>> ELSE Compact(f, n - 1) \o f[n]

\* the surrogate id of the row equal to the nullable value v: its position
\* in the table, NULL when v is NULL or no row matches (the matched columns
\* are unique in every table)
IdOf(tbl, v) ==
  IF v # Null /\ \E i \in 1..Len(tbl) : tbl[i] = v[1]
  THEN Some(CHOOSE i \in 1..Len(tbl) : tbl[i] = v[1])
  ELSE Null

\* INSERT without ON CONFLICT and without the NOT EXISTS guard, into tables
\* that accept any row
InsertAll(tbl, vals) == tbl \o vals

\* INSERT ... ON CONFLICT DO NOTHING (and the NOT EXISTS guard of city) over
\* the candidate rows: a row equal to a stored one is skipped
RECURSIVE InsertDistinct(_, _)
InsertDistinct(tbl, vals) ==
  IF vals = <<>> THEN tbl
  ELSE InsertDistinct(IF \E i \in 1..Len(tbl) : tbl[i] = Head(vals)
                      THEN tbl ELSE Append(tbl, Head(vals)),
                      Tail(vals))

\* the non-blank trimmed values of a column of the staged rows
NonBlankCodes(rows, col) == Compact([i \in 1..Len(rows) |-> rows[i][col]], Len(rows))

EmptyDb ==
  [transaction_type |-> <<>>, item_type |-> <<>>, item_subtype |-> <<>>,
   city |-> <<>>, zipcode |-> <<>>, location |-> <<>>,
   listing |-> <<>>, listing_description |-> {}, listing_version |-> {}]

\* INSERT INTO transaction_type: the trimmed non-blank codes of the batch
insert_transaction_type(t, rows) ==
  [t EXCEPT !.transaction_type =
     InsertDistinct(@, NonBlankCodes(rows, "transaction_type"))]

\* INSERT INTO item_type
insert_item_type(t, rows) ==
  [t EXCEPT !.item_type = InsertDistinct(@, NonBlankCodes(rows, "item_type"))]

\* INSERT INTO item_subtype: the subtype codes joined to their parent
\* item_type by code
insert_item_subtype(t, rows) ==
  LET sub == [i \in 1..Len(rows) |->
                \* a pair <<parent id, code>> as nullable values
                LET pc2 == <<IdOf(t.item_type, rows[i].item_type), rows[i].item_subtype>>
                IN IF pc2[1] = Null \/ pc2[2] = Null THEN Null
                   ELSE Some([item_type_id |-> pc2[1][1], code |-> pc2[2][1]])]
  IN [t EXCEPT !.item_subtype = InsertDistinct(@, Compact(sub, Len(rows)))]

\* upsert_dimensions: transaction_type, item_type, then item_subtype, one
\* statement each
upsert_dimensions(t, rows) ==
  insert_item_subtype(insert_item_type(insert_transaction_type(t, rows), rows), rows)

\* INSERT INTO city: by trimmed name
insert_city(t, rows) ==
  [t EXCEPT !.city = InsertDistinct(@, NonBlankCodes(rows, "city"))]

\* INSERT INTO zipcode: by normalized code
insert_zipcode(t, rows) ==
  [t EXCEPT !.zipcode = InsertDistinct(@, NonBlankCodes(rows, "zipcode"))]

\* INSERT INTO location: the (city, zip) pairs of the batch that join city
\* and zipcode
insert_location(t, rows) ==
  LET loc == [i \in 1..Len(rows) |->
                LET cz == <<IdOf(t.city, rows[i].city), IdOf(t.zipcode, rows[i].zipcode)>>
                IN IF cz[1] = Null \/ cz[2] = Null THEN Null
                   ELSE Some([city_id |-> cz[1][1], zipcode_id |-> cz[2][1]])]
  IN [t EXCEPT !.location = InsertDistinct(@, Compact(loc, Len(rows)))]

\* upsert_cities_zipcodes_locations: city, zipcode, then location, one
\* statement each
upsert_cities_zipcodes_locations(t, rows) ==
  insert_location(insert_zipcode(insert_city(t, rows), rows), rows)

\* upsert_listings with LEFT JOIN transaction_type: a row whose transaction
\* type matches no code is proposed all the same, with type id 0 for NULL
ProposedListingUntyped(t, r) ==
  LET tt == IdOf(t.transaction_type, r.transaction_type)
      it == IdOf(t.item_type, r.item_type)
      st == IF it = Null \/ r.item_subtype = Null THEN Null
            ELSE IdOf(t.item_subtype,
                      Some([item_type_id |-> it[1], code |-> r.item_subtype[1]]))
      c  == IdOf(t.city, r.city)
      z  == IdOf(t.zipcode, r.zipcode)
      lc == IF c = Null \/ z = Null THEN Null
            ELSE IdOf(t.location, Some([city_id |-> c[1], zipcode_id |-> z[1]]))
  IN IF st = Null \/ lc = Null THEN Null
     ELSE Some([external_listing_id |-> r.listing_id,
                transaction_type_id |-> IF tt = Null THEN 0 ELSE tt[1],
                item_subtype_id |-> st[1],
                location_id |-> lc[1],
                build_year |-> r.build_year,
                is_new_construction |-> r.is_new_construction,
                has_passenger_lift |-> r.has_passenger_lift,
                has_cellar |-> r.has_cellar,
                is_furnished |-> r.is_furnished])

\* the row that upsert_listings proposes for a staged row: NULL unless the
\* inner joins to transaction_type, item_type, item_subtype, city, zipcode and
\* location all match
ProposedListing(t, r) ==
  LET tt == IdOf(t.transaction_type, r.transaction_type)
      it == IdOf(t.item_type, r.item_type)
      st == IF it = Null \/ r.item_subtype = Null THEN Null
            ELSE IdOf(t.item_subtype,
                      Some([item_type_id |-> it[1], code |-> r.item_subtype[1]]))
      c  == IdOf(t.city, r.city)
      z  == IdOf(t.zipcode, r.zipcode)
      lc == IF c = Null \/ z = Null THEN Null
            ELSE IdOf(t.location, Some([city_id |-> c[1], zipcode_id |-> z[1]]))
  IN IF tt = Null \/ st = Null \/ lc = Null THEN Null
     ELSE Some([external_listing_id |-> r.listing_id,
                transaction_type_id |-> tt[1],
                item_subtype_id |-> st[1],
                location_id |-> lc[1],
                build_year |-> r.build_year,
                is_new_construction |-> r.is_new_construction,
                has_passenger_lift |-> r.has_passenger_lift,
                has_cellar |-> r.has_cellar,
                is_furnished |-> r.is_furnished])

ProposedListings(t, rows) ==
  Compact([i \in 1..Len(rows) |-> ProposedListing(t, rows[i])], Len(rows))

\* ON CONFLICT (external_listing_id) DO NOTHING: a proposed row whose key is
\* stored is dropped
RECURSIVE InsertListingRowsOnce(_, _)
InsertListingRowsOnce(tbl, props) ==
  IF props = <<>> THEN tbl
  ELSE InsertListingRowsOnce(
         IF \E i \in 1..Len(tbl) :
              /\ Head(props).external_listing_id # Null
              /\ tbl[i].external_listing_id = Head(props).external_listing_id
         THEN tbl
         ELSE Append(tbl, Head(props)),
         Tail(props))

\* ON CONFLICT (external_listing_id) DO UPDATE: a proposed row whose key is
\* stored overwrites that row (its id stays), any other row is appended; a
\* NULL key never conflicts
RECURSIVE UpsertListingRows(_, _)
UpsertListingRows(tbl, props) ==
  IF props = <<>> THEN tbl
  ELSE UpsertListingRows(
         IF \E i \in 1..Len(tbl) :
              /\ Head(props).external_listing_id # Null
              /\ tbl[i].external_listing_id = Head(props).external_listing_id
         THEN [i \in 1..Len(tbl) |->
                 IF tbl[i].external_listing_id = Head(props).external_listing_id
                 THEN Head(props) ELSE tbl[i]]
         ELSE Append(tbl, Head(props)),
         Tail(props))

\* why the INSERT of upsert_listings raises, "none" when it does not: the
\* rows that pass the joins come in the scan order ord, each is computed and
\* then inserted; "cast" when the year of a row raises before a key has come
\* twice, "conflict" ("ON CONFLICT DO UPDATE command cannot affect row a
\* second time") when a key comes a second time first
upsert_listings_cause(t, rows, ord) ==
  LET joined == {i \in 1..Len(rows) : ProposedListing(t, rows[i]) # Null}
      castAt == {ord[i] : i \in {k \in joined : rows[k].year_raises}}
      conflictAt ==
        {ord[j] : j \in {k \in joined :
                           \E i \in joined :
                              /\ ord[i] < ord[k]
                              /\ rows[i].listing_id # Null
                              /\ rows[i].listing_id = rows[k].listing_id}}
  IN IF castAt = {} /\ conflictAt = {} THEN "none"
     ELSE IF conflictAt = {} THEN "cast"
     ELSE IF castAt = {} THEN "conflict"
     ELSE IF SetMin(castAt) <= SetMin(conflictAt) THEN "cast" ELSE "conflict"

upsert_listings(t, rows) ==
  [t EXCEPT !.listing = UpsertListingRows(@, ProposedListings(t, rows))]

\* the listing ids that a staged row joins by its business key
ListingOf(t, r) ==
  {l \in 1..Len(t.listing) :
     r.listing_id # Null /\ t.listing[l].external_listing_id = r.listing_id}

\* Where SQL leaves the choice among several rows open (ROW_NUMBER over tied
\* lengths, UPDATE ... FROM with several matching source rows), the row that
\* comes first in the scan order ord, a permutation of the staged rows, wins.
FirstBy(ord, S) == CHOOSE i \in S : \A j \in S : ord[i] <= ord[j]

\* upsert_descriptions with ORDER BY length(body) without DESC
upsert_descriptions_shortest(t, rows, ord) ==
  LET part(l) == {i \in 1..Len(rows) :
                    rows[i].description_fr # Null /\ l \in ListingOf(t, rows[i])}
      shortest(l) == {i \in part(l) : \A j \in part(l) :
                        Len(rows[i].description_fr[1]) <= Len(rows[j].description_fr[1])}
      hit == {l \in 1..Len(t.listing) : part(l) # {}}
  IN [t EXCEPT !.listing_description =
        {d \in @ : d.listing_id \notin hit}
        \cup {[listing_id |-> l, lang |-> "fr",
               body |-> rows[FirstBy(ord, shortest(l))].description_fr[1]] : l \in hit}]

\* upsert_descriptions without the WHERE of src: a row with an empty or
\* missing description takes part with the empty body
upsert_descriptions_unfiltered(t, rows, ord) ==
  LET body(i) == IF rows[i].description_fr = Null THEN <<>>
                 ELSE rows[i].description_fr[1]
      part(l) == {i \in 1..Len(rows) : l \in ListingOf(t, rows[i])}
      longest(l) == {i \in part(l) : \A j \in part(l) : Len(body(i)) >= Len(body(j))}
      hit == {l \in 1..Len(t.listing) : part(l) # {}}
  IN [t EXCEPT !.listing_description =
        {d \in @ : d.listing_id \notin hit}
        \cup {[listing_id |-> l, lang |-> "fr",
               body |-> body(FirstBy(ord, longest(l)))] : l \in hit}]

\* upsert_descriptions: per business key the longest non-empty trimmed
\* description of the batch replaces the stored body of the joined listing
upsert_descriptions(t, rows, ord) ==
  LET part(l) == {i \in 1..Len(rows) :
                    rows[i].description_fr # Null /\ l \in ListingOf(t, rows[i])}
      longest(l) == {i \in part(l) : \A j \in part(l) :
                       Len(rows[i].description_fr[1]) >= Len(rows[j].description_fr[1])}
      hit == {l \in 1..Len(t.listing) : part(l) # {}}
  IN [t EXCEPT !.listing_description =
        {d \in @ : d.listing_id \notin hit}
        \cup {[listing_id |-> l, lang |-> "fr",
               body |-> rows[FirstBy(ord, longest(l))].description_fr[1]] : l \in hit}]

\* the eight historized attributes
FactFields ==
  {"price", "area", "site_area", "floor", "room_count", "balcony_count",
   "terrace_count", "terrace_area"}

\* Incoming with valid_from = COALESCE(change_ts, NOW()): the start
\* timestamp is not looked at
IncomingNoStart(r, l, nowTs) ==
  [listing_id |-> l,
   valid_from |-> IF r.change_ts # Null THEN r.change_ts[1] ELSE nowTs,
   source_change_ts |-> r.change_ts,
   price |-> r.price, area |-> r.area, site_area |-> r.site_area,
   floor |-> r.floor, room_count |-> r.room_count,
   balcony_count |-> r.balcony_count, terrace_count |-> r.terrace_count,
   terrace_area |-> r.terrace_area]

\* the row of stg_listing_incoming built from a staged row joined to listing
\* l; valid_from = COALESCE(change_ts, start_ts, NOW())
Incoming(r, l, nowTs) ==
  [listing_id |-> l,
   valid_from |-> IF r.change_ts # Null THEN r.change_ts[1]
                  ELSE IF r.start_ts # Null THEN r.start_ts[1]
                  ELSE nowTs,
   source_change_ts |-> r.change_ts,
   price |-> r.price, area |-> r.area, site_area |-> r.site_area,
   floor |-> r.floor, room_count |-> r.room_count,
   balcony_count |-> r.balcony_count, terrace_count |-> r.terrace_count,
   terrace_area |-> r.terrace_area]

\* stg_listing_incoming built only from the rows that the master upsert
\* takes: those whose dimension codes and location are known
IncomingRowsResolved(t, rows, nowTs) ==
  [i \in 1..Len(rows) |->
     IF \/ ListingOf(t, rows[i]) = {}
        \/ rows[i].transaction_type = Null
        \/ rows[i].item_type = Null \/ rows[i].item_subtype = Null
        \/ rows[i].city = Null \/ rows[i].zipcode = Null
     THEN Null
     ELSE Some(Incoming(rows[i], CHOOSE l \in ListingOf(t, rows[i]) : TRUE, nowTs))]

\* stg_listing_incoming: per staged row NULL, or the typed row of its listing
IncomingRows(t, rows, nowTs) ==
  [i \in 1..Len(rows) |->
     IF ListingOf(t, rows[i]) = {} THEN Null
     ELSE Some(Incoming(rows[i], CHOOSE l \in ListingOf(t, rows[i]) : TRUE, nowTs))]

OpenVersions(lv, l) == {v \in lv : v.listing_id = l /\ v.valid_to = Null}

\* every version of listing l, open or closed
VersionsOfListing(lv, l) == {v \in lv : v.listing_id = l}

\* cur.f <> inc.f for one of the eight fields: not true when a side is NULL
FactsDifferNotNull(cur, inc) ==
  \E f \in FactFields : cur[f] # Null /\ inc[f] # Null /\ cur[f] # inc[f]

\* cur.f IS DISTINCT FROM inc.f for one of the eight fields
FactsDiffer(cur, inc) == \E f \in FactFields : cur[f] # inc[f]

\* stg_delta without the comparison of the facts: every incoming row
DeltaAll(lv, inc) == {i \in DOMAIN inc : inc[i] # Null}

\* stg_delta joined to every version of the listing, closed ones too: an
\* incoming row is a delta when no version of its listing carries its facts
DeltaAgainstHistory(lv, inc) ==
  {i \in DOMAIN inc :
     /\ inc[i] # Null
     /\ \A v \in {w \in lv : w.listing_id = inc[i][1].listing_id} :
          FactsDiffer(v, inc[i][1])}

\* stg_delta: the incoming rows with no open version, or with an open
\* version that differs
Delta(lv, inc) ==
  {i \in DOMAIN inc :
     /\ inc[i] # Null
     /\ \/ OpenVersions(lv, inc[i][1].listing_id) = {}
        \/ \E v \in OpenVersions(lv, inc[i][1].listing_id) : FactsDiffer(v, inc[i][1])}

\* CloseVersions with SET valid_to = d.source_change_ts
CloseVersionsAtChangeTs(lv, inc, D, ord) ==
  LET m(v) == {i \in D : /\ v.listing_id = inc[i][1].listing_id
                         /\ v.valid_to = Null
                         /\ v.valid_from <= inc[i][1].valid_from}
  IN {IF m(v) = {} THEN v
      ELSE [v EXCEPT !.valid_to = inc[FirstBy(ord, m(v))][1].source_change_ts]
      : v \in lv}

\* CloseVersions without "AND t.valid_from <= d.valid_from"
CloseVersionsUnguarded(lv, inc, D, ord) ==
  LET m(v) == {i \in D : /\ v.listing_id = inc[i][1].listing_id
                         /\ v.valid_to = Null}
  IN {IF m(v) = {} THEN v
      ELSE [v EXCEPT !.valid_to = Some(inc[FirstBy(ord, m(v))][1].valid_from)]
      : v \in lv}

\* CloseVersions without "AND t.valid_to IS NULL": closed versions are
\* closed again
CloseVersionsAnyState(lv, inc, D, ord) ==
  LET m(v) == {i \in D : /\ v.listing_id = inc[i][1].listing_id
                         /\ v.valid_from <= inc[i][1].valid_from}
  IN {IF m(v) = {} THEN v
      ELSE [v EXCEPT !.valid_to = Some(inc[FirstBy(ord, m(v))][1].valid_from)]
      : v \in lv}

\* UPDATE listing_version t SET valid_to = d.valid_from FROM stg_delta d
\* WHERE t.listing_id = d.listing_id AND t.valid_to IS NULL
\*   AND t.valid_from <= d.valid_from
CloseVersions(lv, inc, D, ord) ==
  LET m(v) == {i \in D : /\ v.listing_id = inc[i][1].listing_id
                         /\ v.valid_to = Null
                         /\ v.valid_from <= inc[i][1].valid_from}
  IN {IF m(v) = {} THEN v
      ELSE [v EXCEPT !.valid_to = Some(inc[FirstBy(ord, m(v))][1].valid_from)]
      : v \in lv}

\* the listing_version row inserted for a delta row: valid_to = NULL
VersionRow(d) ==
  [listing_id |-> d.listing_id, valid_from |-> d.valid_from, valid_to |-> Null,
   price |-> d.price, area |-> d.area, site_area |-> d.site_area,
   floor |-> d.floor, room_count |-> d.room_count,
   balcony_count |-> d.balcony_count, terrace_count |-> d.terrace_count,
   terrace_area |-> d.terrace_area, source_change_ts |-> d.source_change_ts]

\* the INSERT with NOT EXISTS (any version of d.listing_id), without "AND
\* t.valid_to IS NULL": only a listing with no version at all gets one
NewVersionsFirstOnly(closed, inc, D) ==
  Compact([i \in DOMAIN inc |->
             IF i \in D /\ VersionsOfListing(closed, inc[i][1].listing_id) = {}
             THEN Some(VersionRow(inc[i][1])) ELSE Null],
          Len(inc))

\* the INSERT without its WHERE NOT EXISTS: every delta row is inserted
NewVersionsAlways(closed, inc, D) ==
  Compact([i \in DOMAIN inc |->
             IF i \in D THEN Some(VersionRow(inc[i][1])) ELSE Null],
          Len(inc))

\* INSERT INTO listing_version ... FROM stg_delta d WHERE NOT EXISTS (open
\* version of d.listing_id): the rows to insert, one per delta row
NewVersions(closed, inc, D) ==
  Compact([i \in DOMAIN inc |->
             IF i \in D /\ OpenVersions(closed, inc[i][1].listing_id) = {}
             THEN Some(VersionRow(inc[i][1])) ELSE Null],
          Len(inc))

\* listing_version without the key on (listing_id, valid_from)
listing_version_key_unchecked(stored, new) == FALSE

\* key of listing_version: (listing_id, valid_from)
listing_version_key_violated(stored, new) ==
  \/ \E i, j \in 1..Len(new) :
       i < j /\ new[i].listing_id = new[j].listing_id
             /\ new[i].valid_from = new[j].valid_from
  \/ \E i \in 1..Len(new) : \E v \in stored :
       v.listing_id = new[i].listing_id /\ v.valid_from = new[i].valid_from

\* listing_version without the uniqueness of the open version
listing_version_open_unchecked(stored, new) == FALSE

\* valid_to = null is unique per listing
listing_version_open_violated(stored, new) ==
  \/ \E i, j \in 1..Len(new) :
       i < j /\ new[i].listing_id = new[j].listing_id
             /\ new[i].valid_to = Null /\ new[j].valid_to = Null
  \/ \E i \in 1..Len(new) : \E v \in stored :
       v.listing_id = new[i].listing_id /\ v.valid_to = Null /\ new[i].valid_to = Null

\* build_incoming_and_apply_scd2: what it leaves in listing_version, and
\* whether it raises: "cast" when a cast fails while stg_listing_incoming is
\* built, "conflict" when the INSERT breaks a constraint of listing_version
\* (the UPDATE before it is then part of what the transaction had written);
\* the table as the UPDATE left it (updated); and the two counts it logs
\* once both staging tables are built, "incoming rows" and "delta rows
\* (SCD2)"
build_incoming_and_apply_scd2(t, rows, nowTs, ord) ==
  \* the one-element sets bind each intermediate table once
  CHOOSE out \in
    UNION {UNION {UNION {
      { IF \E i \in DOMAIN inc : inc[i] # Null /\ rows[i].raises
        THEN [raises |-> "cast", tables |-> t, updated |-> t, log |-> Null]
        ELSE IF \/ listing_version_key_violated(closed, NewVersions(closed, inc, D))
                \/ listing_version_open_violated(closed, NewVersions(closed, inc, D))
        THEN [raises |-> "conflict",
              tables |-> [t EXCEPT !.listing_version = closed],
              updated |-> [t EXCEPT !.listing_version = closed],
              log |-> Some([incoming |-> Cardinality({i \in DOMAIN inc : inc[i] # Null}),
                            delta |-> Cardinality(D)])]
        ELSE [raises |-> "none",
              tables |-> [t EXCEPT !.listing_version =
                            closed \cup {NewVersions(closed, inc, D)[n] :
                                           n \in 1..Len(NewVersions(closed, inc, D))}],
              updated |-> [t EXCEPT !.listing_version = closed],
              log |-> Some([incoming |-> Cardinality({i \in DOMAIN inc : inc[i] # Null}),
                            delta |-> Cardinality(D)])] }
      : closed \in {CloseVersions(t.listing_version, inc, D, ord)}}
      : D \in {Delta(t.listing_version, inc)}}
      : inc \in {IncomingRows(t, rows, nowTs)}} : TRUE

\* ----------------------------------------------------------- the pipeline

VARIABLES
  db,        \* the committed tables
  mv,        \* the rows of the materialized view listing_current
  pc,        \* where the loader is: idle, committed, refreshed,
             \* complete, failed
  clock,     \* NOW() of the last run
  loads,     \* runs started so far
  family,    \* the family of rows the CSV files are drawn from
  hdr,       \* the header line of the CSV of this run, an index of Headers
  batch,     \* the rows of the CSV of this run
  pre,       \* the tables when this run started
  failedAt,  \* the step at which this run raised
  dirty,     \* the transaction of this run had changed a table when it ended
  staged,    \* this run opened its transaction
  cause,     \* why this run raised
  rerun,     \* this run loads the CSV that the run before it committed
  recovers,  \* what this run recovers from: none, abort (the run before
             \* it raised inside the transaction), publish (its refresh failed)
  logged,    \* the counts "incoming rows" and "delta rows (SCD2)" that this
             \* run logged, NULL when it did not get there (the first
             \* count alone when it did not get to the second)
  tries,     \* the REFRESH statements this run has sent
  connected, \* the connection that connect() yields is open
  conc,      \* two loaders running at the same time: the committed rows and
             \* each loader's transaction
  zin,       \* a zip string handed to norm_zip_5
  zout       \* what norm_zip_5 made of it

vars == <<db, mv, pc, clock, loads, family, hdr, batch, pre, failedAt, dirty,
          staged, cause, rerun, recovers, logged, tries, connected, conc, zin,
          zout>>

\* the state of one loader run after the other
loaderVars == <<db, mv, pc, clock, loads, family, hdr, batch, pre, failedAt,
                dirty, staged, cause, rerun, recovers, logged, tries,
                connected>>

\* the state that only the concurrent loaders and the zip function use
aux == <<conc, zin, zout>>

\* norm_zip_5 has not been evaluated
ZipPending == [done |-> FALSE, code |-> Null]

\* the statements inside "with conn.begin()"
Steps == <<"stage", "dims", "locs", "listings", "descs", "scd2">>

\* the statements that the steps send to the database, in the order of
\* run_pipeline, each with the step (an index of Steps) it belongs to
Statements ==
  << [step |-> 1, sql |-> "DROP TABLE IF EXISTS stg_clean_csv"],
     [step |-> 1, sql |-> "CREATE TEMP TABLE stg_clean_csv"],
     [step |-> 1, sql |-> "COPY stg_clean_csv"],
     [step |-> 1, sql |-> "SELECT COUNT(*) FROM stg_clean_csv"],
     [step |-> 2, sql |-> "INSERT INTO transaction_type"],
     [step |-> 2, sql |-> "INSERT INTO item_type"],
     [step |-> 2, sql |-> "INSERT INTO item_subtype"],
     [step |-> 3, sql |-> "INSERT INTO city"],
     [step |-> 3, sql |-> "INSERT INTO zipcode"],
     [step |-> 3, sql |-> "INSERT INTO location"],
     [step |-> 4, sql |-> "INSERT INTO listing"],
     [step |-> 5, sql |-> "INSERT INTO listing_description"],
     [step |-> 6, sql |-> "DROP TABLE IF EXISTS stg_listing_incoming"],
     [step |-> 6, sql |-> "CREATE TEMP TABLE stg_listing_incoming"],
     [step |-> 6, sql |-> "SELECT COUNT(*) FROM stg_listing_incoming"],
     [step |-> 6, sql |-> "SELECT COUNT(*) ... WHERE terrace_area IS NOT NULL"],
     [step |-> 6, sql |-> "DROP TABLE IF EXISTS stg_delta"],
     [step |-> 6, sql |-> "CREATE TEMP TABLE stg_delta"],
     [step |-> 6, sql |-> "SELECT COUNT(*) FROM stg_delta"],
     [step |-> 6, sql |-> "UPDATE listing_version"],
     [step |-> 6, sql |-> "INSERT INTO listing_version"] >>

\* The body of the transaction of run_pipeline on tables t.
\* run_pipeline_trace: the tables before each of the statements 1 to 13
\* (the 13th to the 20th statement all find those before the 13th), why the
\* INSERT of upsert_listings raises, and what build_incoming_and_apply_scd2
\* does.  run_pipeline_outcome: the step that
\* raised (at, 0 when none did), why, the tables as the transaction had
\* written them by then, and the counts the SCD2 step had logged by then.
\* fault = k makes the k-th statement raise for a reason outside the data
\* (connection lost, disk full) if the run gets to it: no statement before
\* it raises by itself, and UPDATE and INSERT of listing_version are only
\* sent when there is a delta.  The other errors are those the statements
\* raise themselves.  "incoming rows" is logged after the 16th statement,
\* "delta rows (SCD2)" after the 19th.
run_pipeline_trace(t, rows, nowTs, ord) ==
  LET s2a == insert_transaction_type(t, rows)
      s2b == insert_item_type(s2a, rows)
      s2  == insert_item_subtype(s2b, rows)
      s3a == insert_city(s2, rows)
      s3b == insert_zipcode(s3a, rows)
      s3  == insert_location(s3b, rows)
      s4  == upsert_listings(s3, rows)
      s5  == upsert_descriptions(s4, rows, ord)
  IN [before |-> <<t, t, t, t, t, s2a, s2b, s2, s3a, s3b, s3, s4, s5>>,
      listings |-> upsert_listings_cause(s3, rows, ord),
      scd2 |-> build_incoming_and_apply_scd2(s5, rows, nowTs, ord)]

\* what the transaction whose statements did tr ends with when fault strikes
run_pipeline_outcome(tr, fault) ==
  LET lc == tr.listings
      s6 == tr.scd2
      struck ==
        \/ fault \in 1..11
        \/ fault \in 12..14 /\ lc = "none"
        \/ fault \in 15..19 /\ lc = "none" /\ s6.raises # "cast"
        \/ /\ fault \in 20..21 /\ lc = "none" /\ s6.raises # "cast"
           /\ s6.log[1].delta > 0
      before ==
        CASE fault \in 1..13 -> tr.before[fault]
          [] fault \in 14..20 -> tr.before[13]
          [] OTHER -> s6.updated
      logBefore ==
        CASE fault \in 1..16 -> Null
          [] fault \in 17..19 ->
               Some([incoming |-> s6.log[1].incoming])
          [] OTHER -> s6.log
  IN IF struck
     THEN [at |-> Statements[fault].step, cause |-> "external",
           written |-> before, log |-> logBefore]
     ELSE IF lc # "none"
     THEN [at |-> 4, cause |-> lc, written |-> tr.before[11], log |-> Null]
     ELSE [at |-> IF s6.raises = "none" THEN 0 ELSE 6,
           cause |-> s6.raises,
           written |-> s6.tables,
           log |-> s6.log]

run_pipeline_tx(t, rows, nowTs, ord, fault) ==
  run_pipeline_outcome(run_pipeline_trace(t, rows, nowTs, ord), fault)

\* leaving "with conn.begin()" without an exception commits what was written
Commit(before, written) == written

\* the statements run in autocommit: what was written stays
RollbackNothing(before, written) == written

\* leaving it with an exception rolls back to the tables before the run
Rollback(before, written) == before

\* the rows of listing_current: each listing joined to its open version
listing_current(t) ==
  {[id |-> v.listing_id,
    external_listing_id |-> t.listing[v.listing_id].external_listing_id,
    transaction_type_id |-> t.listing[v.listing_id].transaction_type_id,
    item_subtype_id |-> t.listing[v.listing_id].item_subtype_id,
    location_id |-> t.listing[v.listing_id].location_id,
    price |-> v.price, area |-> v.area, site_area |-> v.site_area,
    floor |-> v.floor, room_count |-> v.room_count,
    balcony_count |-> v.balcony_count, terrace_count |-> v.terrace_count,
    terrace_area |-> v.terrace_area, valid_from |-> v.valid_from]
   : v \in {w \in t.listing_version : w.valid_to = Null}}

Init ==
  /\ db = EmptyDb
  /\ mv = {}
  /\ pc = "idle"
  /\ clock = 0
  /\ loads = 0
  /\ family \in Families
  /\ hdr = 1
  /\ batch = <<>>
  /\ pre = EmptyDb
  /\ failedAt = "none"
  /\ dirty = FALSE
  /\ staged = FALSE
  /\ cause = "none"
  /\ rerun = FALSE
  /\ recovers = "none"
  /\ logged = Null
  /\ tries = 0
  /\ connected = FALSE
  /\ conc = Null
  /\ zin = <<>>
  /\ zout = ZipPending

CanStart == pc = "idle" /\ loads < MaxLoads

\* run_pipeline, assert_expected_headers raises: nothing is connected, the
\* rows of the file are not read
RunHeaderError ==
  /\ CanStart
  /\ \E h \in DOMAIN Headers :
       /\ assert_expected_headers_raises(Headers[h])
       /\ hdr' = h
  /\ pc' = "failed"
  /\ failedAt' = "header"
  /\ cause' = "header"
  /\ pre' = db
  /\ batch' = <<>>
  /\ dirty' = FALSE
  /\ staged' = FALSE
  /\ rerun' = FALSE
  /\ recovers' = "none"
  /\ logged' = Null
  /\ loads' = loads + 1
  /\ clock' = clock + 2
  /\ UNCHANGED <<db, mv, family>>
  /\ tries' = 0
  /\ connected' = FALSE
  /\ UNCHANGED aux

\* run_pipeline with the refresh as the last statement inside "with
\* conn.begin()": the view is rebuilt from what the transaction has
\* written, whether or not it commits
TransactionPublishing(b, faults) ==
  /\ loads < MaxLoads
  /\ \E ord \in Perms(Len(b)) :
     \E tr \in {run_pipeline_trace(db, RowsOf(b), clock + 2, ord)} :
       \E out \in {run_pipeline_outcome(tr, fault) : fault \in faults} :
          /\ db' = IF out.at = 0 THEN Commit(db, out.written)
                                 ELSE Rollback(db, out.written)
          /\ pc' = IF out.at = 0 THEN "committed" ELSE "failed"
          /\ failedAt' = IF out.at = 0 THEN "none" ELSE Steps[out.at]
          /\ cause' = out.cause
          /\ dirty' = (out.written # db)
          /\ logged' = out.log
          /\ connected' = (out.at = 0)
          /\ mv' = listing_current(out.written)
  /\ \E h \in DOMAIN Headers :
       /\ ~assert_expected_headers_raises(Headers[h])
       /\ hdr' = h
  /\ pre' = db
  /\ batch' = b
  /\ staged' = TRUE
  /\ loads' = loads + 1
  /\ clock' = clock + 2
  /\ UNCHANGED family
  /\ tries' = 0
  /\ UNCHANGED aux

\* run_pipeline up to the end of "with conn.begin()" on a CSV with rows b;
\* faults: the statements at which an error from outside the data may strike
\* this run (0: none does)
Transaction(b, faults) ==
  /\ loads < MaxLoads
  /\ \E ord \in Perms(Len(b)) :
     \E tr \in {run_pipeline_trace(db, RowsOf(b), clock + 2, ord)} :
       \E out \in {run_pipeline_outcome(tr, fault) : fault \in faults} :
          /\ db' = IF out.at = 0 THEN Commit(db, out.written)
                                 ELSE Rollback(db, out.written)
          /\ pc' = IF out.at = 0 THEN "committed" ELSE "failed"
          /\ failedAt' = IF out.at = 0 THEN "none" ELSE Steps[out.at]
          /\ cause' = out.cause
          /\ dirty' = (out.written # db)
          /\ logged' = out.log
          /\ connected' = (out.at = 0)
  /\ \E h \in DOMAIN Headers :
       /\ ~assert_expected_headers_raises(Headers[h])
       /\ hdr' = h
  /\ pre' = db
  /\ batch' = b
  /\ staged' = TRUE
  /\ loads' = loads + 1
  /\ clock' = clock + 2
  /\ UNCHANGED <<mv, family>>
  /\ tries' = 0
  /\ UNCHANGED aux

RunTransaction ==
  /\ pc = "idle"
  /\ \E b \in Batches(family) : Transaction(b, 0..Len(Statements))
  /\ rerun' = FALSE
  /\ recovers' = "none"

\* the loader is started again on the file it has just loaded
RerunTransaction ==
  /\ pc = "complete" \/ (pc = "failed" /\ failedAt = "refresh")
  /\ Transaction(batch, 0..Len(Statements))
  /\ rerun' = TRUE
  /\ recovers' = IF pc = "failed" THEN "publish" ELSE "none"

\* the loader is started again on the file whose load was rolled back; this
\* time nothing from outside the data interrupts it
RetryTransaction ==
  /\ pc = "failed" /\ \E k \in DOMAIN Steps : failedAt = Steps[k]
  /\ Transaction(batch, {0})
  /\ rerun' = FALSE
  /\ recovers' = "abort"

\* refresh_snapshot called in a finally block: also after the transaction
\* raised
RefreshConcurrentlyAlways ==
  /\ pc = "committed" \/ (pc = "failed" /\ failedAt # "refresh")
  /\ mv' = listing_current(db)
  /\ pc' = "refreshed"
  /\ UNCHANGED <<db, clock, loads, family, hdr, batch, pre, failedAt, dirty,
                 staged, cause, rerun, recovers, logged>>
  /\ tries' = 1
  /\ UNCHANGED connected
  /\ UNCHANGED aux

\* a refresh that also purges the closed versions from listing_version
RefreshConcurrentlyPurges ==
  /\ pc = "committed"
  /\ mv' = listing_current(db)
  /\ db' = [db EXCEPT !.listing_version = {v \in @ : v.valid_to = Null}]
  /\ pc' = "refreshed"
  /\ UNCHANGED <<clock, loads, family, hdr, batch, pre, failedAt, dirty,
                 staged, cause, rerun, recovers, logged>>
  /\ tries' = 1
  /\ UNCHANGED connected
  /\ UNCHANGED aux

\* the except branch only logs and returns: the view is not rebuilt
RefreshConcurrentlyStale ==
  /\ pc = "committed"
  /\ pc' = "refreshed"
  /\ UNCHANGED <<db, mv, clock, loads, family, hdr, batch, pre, failedAt, dirty,
                 staged, cause, rerun, recovers, logged>>
  /\ tries' = 1
  /\ UNCHANGED connected
  /\ UNCHANGED aux

\* refresh_snapshot, REFRESH MATERIALIZED VIEW CONCURRENTLY succeeds
RefreshConcurrently ==
  /\ pc = "committed"
  /\ mv' = listing_current(db)
  /\ pc' = "refreshed"
  /\ UNCHANGED <<db, clock, loads, family, hdr, batch, pre, failedAt, dirty,
                 staged, cause, rerun, recovers, logged>>
  /\ tries' = 1
  /\ UNCHANGED connected
  /\ UNCHANGED aux

\* the failed refresh takes the load back
RefreshConcurrentlyFailsRollsBack ==
  /\ pc = "committed"
  /\ pc' = "failed"
  /\ failedAt' = "refresh"
  /\ cause' = "invalid_request"
  /\ db' = pre
  /\ UNCHANGED <<mv, clock, loads, family, hdr, batch, pre, dirty, staged,
                 rerun, recovers, logged>>
  /\ tries' = 1
  /\ connected' = FALSE
  /\ UNCHANGED aux

\* refresh_snapshot, REFRESH MATERIALIZED VIEW CONCURRENTLY raises.  The
\* connection is one of an engine created with future=True: the statement
\* has begun a transaction of the connection, which the error leaves open,
\* and in the except branch execution_options(isolation_level=...) raises
\* InvalidRequestError on a connection that is in a transaction.  The
\* blocking REFRESH is never sent; the exception leaves run_pipeline, the
\* load stays committed and the view as it was.
RefreshConcurrentlyFails ==
  /\ pc = "committed"
  /\ pc' = "failed"
  /\ failedAt' = "refresh"
  /\ cause' = "invalid_request"
  /\ UNCHANGED <<db, mv, clock, loads, family, hdr, batch, pre, dirty, staged,
                 rerun, recovers, logged>>
  /\ tries' = 1
  /\ connected' = FALSE
  /\ UNCHANGED aux

\* diagnostics only reads
Diagnostics ==
  /\ pc = "refreshed"
  /\ pc' = "complete"
  /\ UNCHANGED <<db, mv, clock, loads, family, hdr, batch, pre, failedAt, dirty,
                 staged, cause, rerun, recovers, logged>>
  /\ UNCHANGED tries
  /\ connected' = FALSE
  /\ UNCHANGED aux

\* the process ends; what it knew about its run is gone
Exit ==
  /\ pc \in {"complete", "failed"}
  /\ pc' = "idle"
  /\ hdr' = 1
  /\ batch' = <<>>
  /\ pre' = EmptyDb
  /\ failedAt' = "none"
  /\ dirty' = FALSE
  /\ staged' = FALSE
  /\ cause' = "none"
  /\ rerun' = FALSE
  /\ recovers' = "none"
  /\ logged' = Null
  /\ UNCHANGED <<db, mv, clock, loads, family>>
  /\ tries' = 0
  /\ connected' = FALSE
  /\ UNCHANGED aux

Next ==
  \/ RunHeaderError
  \/ RunTransaction
  \/ RerunTransaction
  \/ RetryTransaction
  \/ RefreshConcurrently
  \/ RefreshConcurrentlyFails
  \/ Diagnostics
  \/ Exit

Spec == Init /\ [][Next]_vars

\* The loader process keeps running: a statement sent to the database
\* returns or raises, and the interpreter then executes what follows it in
\* run_pipeline.  Nothing obliges anyone to start the loader again.
LiveSpec ==
  /\ Spec
  /\ WF_vars(RefreshConcurrently \/ RefreshConcurrentlyFails)
  /\ WF_vars(Diagnostics)

\* ------------------------------------------- two loaders at the same time

\* Two processes run run_pipeline at once, each on a CSV of one row, against
\* one database under READ COMMITTED (the default of the engine that
\* connect creates).  A table is a set of rows [key, by]: the columns that
\* identify the row and the loader that inserted it; the pair stands for the
\* surrogate id, so a row that references another holds that row.  Every
\* statement reads the rows committed when it starts and those of its own
\* transaction, and an insert into a unique index waits while the other
\* transaction holds the same key uncommitted.  Every statement is a step of
\* its own: between two of them the other loader can run and commit.  The
\* staging tables are private to the session.  A row of listing_version is
\* the row of Spec, its listing_id being the row of listing it refers to.
CTables ==
  <<"transaction_type", "item_type", "item_subtype", "city", "zipcode",
    "location", "listing", "listing_description", "listing_version">>

\* the statements of the transaction under the names of the steps, in the
\* order of Statements
CSteps ==
  <<"drop_staging", "create_staging", "copy", "count_staging",
    "transaction_type", "item_type", "item_subtype", "city", "zipcode",
    "location", "listing", "listing_description",
    "drop_incoming", "stg_listing_incoming", "count_incoming",
    "count_terrace", "drop_delta", "stg_delta", "count_delta",
    "update_version", "insert_version">>

CTableSet == {CTables[i] : i \in DOMAIN CTables}

NoRows == [t \in CTableSet |-> {}]

\* the CSV of loader 1 and the CSVs that loader 2 may have: a listing that
\* shares every dimension code with it, or only the city and the zip
ConcRow1 == 1
ConcRows2 == {7, 24}

Other(p) == 3 - p

\* the statement after statement t; the end of "with conn.begin()" after
\* the last
NextStep(t) ==
  IF t = CSteps[Len(CSteps)] THEN "commit"
  ELSE CSteps[(CHOOSE i \in DOMAIN CSteps : CSteps[i] = t) + 1]

\* what a statement of loader p sees: the committed rows that its
\* transaction has not replaced, and the rows of its transaction
Visible(p) ==
  [t \in CTableSet |-> (conc.com[t] \ conc.tx[p].gone[t]) \cup conc.tx[p].own[t]]

WithKey(rows, k) == {x \in rows : k # Null /\ x.key = k[1]}

\* the tables that carry a unique index on the key: those named in an
\* ON CONFLICT clause and, where the schema says so, city(name)
Indexed(t) == t # "city" \/ conc.unique

\* the statement on t ends in ON CONFLICT ... DO NOTHING
OnConflictDoNothing(t) == t # "city"

\* the keys that the INSERT ... SELECT on table t of loader p proposes
Proposed(p, t) ==
  LET r == Staged[conc.rows[p]]
      v == Visible(p)
  IN CASE t = "transaction_type" ->
            IF r.transaction_type = Null THEN {} ELSE {r.transaction_type[1]}
       [] t = "item_type" ->
            IF r.item_type = Null THEN {} ELSE {r.item_type[1]}
       [] t = "item_subtype" ->
            IF r.item_subtype = Null THEN {}
            ELSE {[it |-> i, code |-> r.item_subtype[1]]
                  : i \in WithKey(v.item_type, r.item_type)}
       [] t = "city" ->
            \* WHERE ... NOT EXISTS (SELECT 1 FROM city c WHERE c.name = ...)
            IF r.city = Null \/ WithKey(v.city, r.city) # {} THEN {}
            ELSE {r.city[1]}
       [] t = "zipcode" ->
            IF r.zipcode = Null THEN {} ELSE {r.zipcode[1]}
       [] t = "location" ->
            {[city |-> c, zip |-> z]
             : c \in WithKey(v.city, r.city), z \in WithKey(v.zipcode, r.zipcode)}

\* the rows that the SELECT of upsert_listings joins for the row of loader p
ProposedListingRefs(p) ==
  LET r == Staged[conc.rows[p]]
      v == Visible(p)
  IN {[tt |-> a, st |-> s, loc |-> l]
      : a \in WithKey(v.transaction_type, r.transaction_type),
        s \in {x \in v.item_subtype :
                 /\ r.item_subtype # Null
                 /\ x.key.code = r.item_subtype[1]
                 /\ x.key.it \in WithKey(v.item_type, r.item_type)},
        l \in {x \in v.location :
                 /\ x.key.city \in WithKey(v.city, r.city)
                 /\ x.key.zip \in WithKey(v.zipcode, r.zipcode)}}

\* a transaction that holds nothing, at step st: no row written or
\* replaced, no candidate row, stg_listing_incoming and stg_delta absent
Holding(st) ==
  [step |-> st, phase |-> "read", own |-> NoRows, gone |-> NoRows,
   cand |-> {}, inc |-> <<>>, delta |-> {}]

Aborted == Holding("aborted")

ConcInit ==
  /\ db = EmptyDb
  /\ mv = {}
  /\ pc = "idle"
  /\ clock = 0
  /\ loads = 0
  /\ family = "history"
  /\ hdr = 1
  /\ batch = <<>>
  /\ pre = EmptyDb
  /\ failedAt = "none"
  /\ dirty = FALSE
  /\ staged = FALSE
  /\ cause = "none"
  /\ rerun = FALSE
  /\ recovers = "none"
  /\ logged = Null
  /\ tries = 0
  /\ connected = FALSE
  /\ zin = <<>>
  /\ zout = ZipPending
  /\ \E u \in BOOLEAN : \E r2 \in ConcRows2 :
       conc = [unique |-> u,
               rows |-> <<ConcRow1, r2>>,
               com |-> NoRows,
               tx |-> [p \in 1..2 |-> Holding(CSteps[1])]]

\* create_temp_staging, copy_csv_into_staging and the count of run_pipeline:
\* four statements on stg_clean_csv, which only this session sees and whose
\* one row is conc.rows[p]
CStage(p) ==
  /\ conc # Null
  /\ \E i \in 1..4 : conc.tx[p].step = CSteps[i]
  /\ conc' = [conc EXCEPT !.tx[p].step = NextStep(@)]
  /\ UNCHANGED <<loaderVars, zin, zout>>

\* loader p is at one of the six INSERT ... SELECT into a dimension
AtDimension(p, ph) ==
  /\ conc # Null
  /\ conc.tx[p].phase = ph
  /\ \E i \in 1..6 : conc.tx[p].step = CTables[i]

\* the SELECT of the statement runs on its snapshot
CRead(p) ==
  /\ AtDimension(p, "read")
  /\ conc' = [conc EXCEPT !.tx[p].cand = Proposed(p, conc.tx[p].step),
                          !.tx[p].phase = "write"]
  /\ UNCHANGED <<loaderVars, zin, zout>>

\* a proposed row goes in: no row with its key is committed or its own, and
\* the other transaction holds none uncommitted (the insert would wait);
\* an unindexed table takes any row
CInsert(p) ==
  /\ AtDimension(p, "write")
  /\ \E k \in conc.tx[p].cand :
       LET t == conc.tx[p].step
       IN /\ Indexed(t) =>
               /\ WithKey(Visible(p)[t], Some(k)) = {}
               /\ WithKey(conc.tx[Other(p)].own[t], Some(k)) = {}
          /\ conc' = [conc EXCEPT
                        !.tx[p].own[t] = @ \cup {[key |-> k, by |-> p]},
                        !.tx[p].cand = @ \ {k}]
  /\ UNCHANGED <<loaderVars, zin, zout>>

\* ON CONFLICT DO NOTHING: a row with the key is there, the proposed one is
\* dropped
CSkip(p) ==
  /\ AtDimension(p, "write")
  /\ \E k \in conc.tx[p].cand :
       LET t == conc.tx[p].step
       IN /\ OnConflictDoNothing(t)
          /\ WithKey(Visible(p)[t], Some(k)) # {}
          /\ conc' = [conc EXCEPT !.tx[p].cand = @ \ {k}]
  /\ UNCHANGED <<loaderVars, zin, zout>>

\* the insert into city meets a committed row that its NOT EXISTS did not
\* see: unique_violation, the transaction of the loader is rolled back
CUniqueViolation(p) ==
  /\ AtDimension(p, "write")
  /\ \E k \in conc.tx[p].cand :
       LET t == conc.tx[p].step
       IN /\ ~OnConflictDoNothing(t)
          /\ Indexed(t)
          /\ WithKey(Visible(p)[t], Some(k)) # {}
  /\ conc' = [conc EXCEPT !.tx[p] = Aborted]
  /\ UNCHANGED <<loaderVars, zin, zout>>

\* the statement is done
CNext(p) ==
  /\ AtDimension(p, "write")
  /\ conc.tx[p].cand = {}
  /\ conc' = [conc EXCEPT !.tx[p].step = NextStep(@),
                          !.tx[p].phase = "read"]
  /\ UNCHANGED <<loaderVars, zin, zout>>

\* upsert_listings: the one row the joins produce is inserted (the business
\* keys of the two CSVs differ, no row with the key is there)
CListing(p) ==
  /\ conc # Null
  /\ conc.tx[p].step = "listing"
  /\ \E refs \in {ProposedListingRefs(p)} :
       /\ Cardinality(refs) <= 1
       /\ conc' = [conc EXCEPT
                     !.tx[p].own["listing"] =
                        @ \cup {[key |-> Staged[conc.rows[p]].listing_id[1],
                                 by |-> p, ref |-> x] : x \in refs},
                     !.tx[p].step = NextStep(@)]
  /\ UNCHANGED <<loaderVars, zin, zout>>

\* upsert_listings: the joins produce the row twice, "ON CONFLICT DO UPDATE
\* command cannot affect row a second time"
CListingRaises(p) ==
  /\ conc # Null
  /\ conc.tx[p].step = "listing"
  /\ Cardinality(ProposedListingRefs(p)) > 1
  /\ conc' = [conc EXCEPT !.tx[p] = Aborted]
  /\ UNCHANGED <<loaderVars, zin, zout>>

\* upsert_descriptions: the description of the row, when it has one, is
\* stored for the listing that its business key joins; the stored body of
\* that listing is replaced (ON CONFLICT (listing_id) DO UPDATE)
CDescriptions(p) ==
  /\ conc # Null
  /\ conc.tx[p].step = "listing_description"
  /\ LET r   == Staged[conc.rows[p]]
         hit == IF r.description_fr = Null THEN {}
                ELSE WithKey(Visible(p).listing, r.listing_id)
         old == {d \in Visible(p).listing_description : d.key \in hit}
     IN conc' = [conc EXCEPT
                   !.tx[p].own["listing_description"] =
                      (@ \ old) \cup {[key |-> l, by |-> p,
                                       body |-> r.description_fr[1]] : l \in hit},
                   !.tx[p].gone["listing_description"] =
                      @ \cup (old \cap conc.com["listing_description"]),
                   !.tx[p].step = NextStep(@)]
  /\ UNCHANGED <<loaderVars, zin, zout>>

\* build_incoming_and_apply_scd2, DROP TABLE IF EXISTS stg_listing_incoming
\* and DROP TABLE IF EXISTS stg_delta
CDropTemp(p) ==
  /\ conc # Null
  /\ \/ /\ conc.tx[p].step = "drop_incoming"
        /\ conc' = [conc EXCEPT !.tx[p].inc = <<>>, !.tx[p].step = NextStep(@)]
     \/ /\ conc.tx[p].step = "drop_delta"
        /\ conc' = [conc EXCEPT !.tx[p].delta = {}, !.tx[p].step = NextStep(@)]
  /\ UNCHANGED <<loaderVars, zin, zout>>

\* CREATE TEMP TABLE stg_listing_incoming: the row joined to the listing
\* with its business key, as this statement sees the table; a cast of a
\* joined row that raises rolls the transaction back
CIncoming(p) ==
  /\ conc # Null
  /\ conc.tx[p].step = "stg_listing_incoming"
  /\ LET r == Staged[conc.rows[p]]
         L == WithKey(Visible(p).listing, r.listing_id)
     IN conc' = IF L # {} /\ r.raises
                THEN [conc EXCEPT !.tx[p] = Aborted]
                ELSE [conc EXCEPT
                        !.tx[p].inc =
                           << IF L = {} THEN Null
                              ELSE Some(Incoming(r, CHOOSE l \in L : TRUE, 2)) >>,
                        !.tx[p].step = NextStep(@)]
  /\ UNCHANGED <<loaderVars, zin, zout>>

\* the three SELECT COUNT(*) on the staging tables; "if delta > 0" after the
\* last: with no delta row the function returns
CCount(p) ==
  /\ conc # Null
  /\ conc.tx[p].step \in {"count_incoming", "count_terrace", "count_delta"}
  /\ conc' = [conc EXCEPT
                !.tx[p].step =
                   IF @ = "count_delta" /\ conc.tx[p].delta = {}
                   THEN "commit" ELSE NextStep(@)]
  /\ UNCHANGED <<loaderVars, zin, zout>>

\* CREATE TEMP TABLE stg_delta: the incoming rows against the open versions
\* that this statement sees
CDelta(p) ==
  /\ conc # Null
  /\ conc.tx[p].step = "stg_delta"
  /\ conc' = [conc EXCEPT
                !.tx[p].delta = Delta(Visible(p).listing_version, conc.tx[p].inc),
                !.tx[p].step = NextStep(@)]
  /\ UNCHANGED <<loaderVars, zin, zout>>

\* UPDATE listing_version: the open versions that this statement sees and
\* that a delta row closes are replaced by the closed ones
CCloseVersions(p) ==
  /\ conc # Null
  /\ conc.tx[p].step = "update_version"
  /\ LET lv     == Visible(p).listing_version
         closed == CloseVersions(lv, conc.tx[p].inc, conc.tx[p].delta,
                                 [i \in DOMAIN conc.tx[p].inc |-> i])
     IN conc' = [conc EXCEPT
                   !.tx[p].own["listing_version"] =
                      (@ \ (lv \ closed)) \cup (closed \ lv),
                   !.tx[p].gone["listing_version"] =
                      @ \cup ((lv \ closed) \cap conc.com["listing_version"]),
                   !.tx[p].step = NextStep(@)]
  /\ UNCHANGED <<loaderVars, zin, zout>>

\* INSERT INTO listing_version: a version for each delta row whose listing
\* has no open version as this statement sees the table; the transaction
\* is rolled back when a constraint of listing_version is broken
CNewVersions(p) ==
  /\ conc # Null
  /\ conc.tx[p].step = "insert_version"
  /\ LET lv  == Visible(p).listing_version
         new == NewVersions(lv, conc.tx[p].inc, conc.tx[p].delta)
     IN conc' = IF \/ listing_version_key_violated(lv, new)
                   \/ listing_version_open_violated(lv, new)
                THEN [conc EXCEPT !.tx[p] = Aborted]
                ELSE [conc EXCEPT
                        !.tx[p].own["listing_version"] =
                           @ \cup {new[n] : n \in 1..Len(new)},
                        !.tx[p].step = NextStep(@)]
  /\ UNCHANGED <<loaderVars, zin, zout>>

\* the end of "with conn.begin()"
CCommit(p) ==
  /\ conc # Null
  /\ conc.tx[p].step = "commit"
  /\ conc' = [conc EXCEPT
                !.com = [t \in CTableSet |->
                           (@[t] \ conc.tx[p].gone[t]) \cup conc.tx[p].own[t]],
                !.tx[p] = Holding("done")]
  /\ UNCHANGED <<loaderVars, zin, zout>>

ConcNext ==
  \E p \in 1..2 :
    \/ CStage(p)
    \/ CRead(p)
    \/ CInsert(p)
    \/ CSkip(p)
    \/ CUniqueViolation(p)
    \/ CNext(p)
    \/ CListing(p)
    \/ CListingRaises(p)
    \/ CDescriptions(p)
    \/ CDropTemp(p)
    \/ CIncoming(p)
    \/ CCount(p)
    \/ CDelta(p)
    \/ CCloseVersions(p)
    \/ CNewVersions(p)
    \/ CCommit(p)

ConcSpec == ConcInit /\ [][ConcNext]_vars

\* ------------------------------------------------- norm_zip_5 on its own

\* the zip strings: every text of up to MaxZipLen characters over digits, a
\* letter and the space
MaxZipLen == 6
ZipAlphabet == {"0", "7", "A", " "}
ZipStrings == UNION {[1..n -> ZipAlphabet] : n \in 0..MaxZipLen}

ZipInit ==
  /\ db = EmptyDb
  /\ mv = {}
  /\ pc = "idle"
  /\ clock = 0
  /\ loads = 0
  /\ family = "history"
  /\ hdr = 1
  /\ batch = <<>>
  /\ pre = EmptyDb
  /\ failedAt = "none"
  /\ dirty = FALSE
  /\ staged = FALSE
  /\ cause = "none"
  /\ rerun = FALSE
  /\ recovers = "none"
  /\ logged = Null
  /\ tries = 0
  /\ connected = FALSE
  /\ conc = Null
  /\ zin \in ZipStrings
  /\ zout = ZipPending

\* the expression norm_zip_5 builds is evaluated on the column value zin
NormZip ==
  /\ ~zout.done
  /\ zout' = [done |-> TRUE, code |-> norm_zip_5(zin)]
  /\ UNCHANGED <<loaderVars, conc, zin>>

ZipNext == NormZip

ZipSpec == ZipInit /\ [][ZipNext]_vars

\* ------------------------------------------------------------- properties

VersionsOf(lv, l) == {v \in lv : v.listing_id = l}

\* the rows of the batch of this run that join listing l by business key
BatchRowsOf(l) ==
  {i \in DOMAIN batch : l \in ListingOf(db, Staged[batch[i]])}

\* C1: after any sequence of loads every listing has at most one version
\* with valid_to = NULL, also when a business key occurs in several rows of a
\* batch.
C1_AtMostOneOpenVersion ==
  \A l \in 1..Len(db.listing) :
     Cardinality(OpenVersions(db.listing_version, l)) <= 1

\* a committed load whose batch held two rows of one listing, and wrote
\* versions of it
C1_Witness ==
  /\ pc = "committed"
  /\ \E l \in 1..Len(db.listing) :
       /\ Cardinality(BatchRowsOf(l)) = 2
       /\ VersionsOf(db.listing_version, l) # VersionsOf(pre.listing_version, l)
       /\ Cardinality(VersionsOf(db.listing_version, l)) >= 2

\* C2: for every two versions of one listing the one that starts first is
\* closed, and closed no later than the other one starts: the intervals
\* [valid_from, valid_to) do not overlap.
C2_NoOverlap ==
  \A v, w \in db.listing_version :
     (v # w /\ v.listing_id = w.listing_id /\ v.valid_from <= w.valid_from)
       => (v.valid_to # Null /\ v.valid_to[1] <= w.valid_from)

\* a listing with three versions, each closed where the next one starts
C2_Witness ==
  \E u, v, w \in db.listing_version :
     /\ u.listing_id = v.listing_id /\ v.listing_id = w.listing_id
     /\ u.valid_to = Some(v.valid_from)
     /\ v.valid_to = Some(w.valid_from)
     /\ u.valid_from < v.valid_from /\ v.valid_from < w.valid_from
     /\ w.valid_to = Null

\* C6: when a step inside the transaction raises, the tables are those of
\* before the load.
C6_Atomicity ==
  (pc = "failed" /\ \E k \in DOMAIN Steps : failedAt = Steps[k]) => db = pre

\* the SCD2 step raised after the transaction had changed tables, on a
\* database that held data
C6_Witness ==
  /\ pc = "failed" /\ failedAt = "scd2" /\ dirty
  /\ pre # EmptyDb
  /\ db = pre

\* C7: a run whose header lacks one of the 22 expected columns (compared in
\* lower case) fails at the header check, before the transaction is opened
\* and with every table unchanged.
C7_MissingHeaderFailsFirst ==
  (pc # "idle" /\ MissingHeaders(Headers[hdr]) # {})
    => (pc = "failed" /\ failedAt = "header" /\ ~staged /\ db = pre)

\* the header check raised on a database that held versions
C7_Witness ==
  /\ pc = "failed" /\ failedAt = "header"
  /\ MissingHeaders(Headers[hdr]) # {}
  /\ db.listing_version # {}

\* C3: loading the batch that was just loaded writes nothing: every table
\* after the second run equals the table before it.
C3_Idempotence == (rerun /\ pc = "committed") => db = pre

\* listing l had an open version when this run started and every row of the
\* batch that joins l carries the facts of that version
Unchanged(l) ==
  /\ BatchRowsOf(l) # {}
  /\ \E v \in OpenVersions(pre.listing_version, l) :
        \A i \in BatchRowsOf(l) : ~FactsDiffer(v, Staged[batch[i]])

\* C4: a committed load leaves the versions of a listing as they were when
\* the facts that the batch carries for it are those of its open version.
C4_MonotonicHistory ==
  pc = "committed" =>
    \A l \in 1..Len(pre.listing) :
       Unchanged(l) =>
         VersionsOf(db.listing_version, l) = VersionsOf(pre.listing_version, l)

\* one listing of the batch is unchanged while the load wrote versions of
\* another one
C4_Witness ==
  /\ pc = "committed"
  /\ \E l \in 1..Len(pre.listing) : Unchanged(l)
  /\ db.listing_version # pre.listing_version

\* the first present value among change timestamp, start timestamp and the
\* time of the load, for row i of the batch of this run
EffectiveTs(i) ==
  IF AllRows[batch[i]].change_date # <<>> THEN DigitsToNat(AllRows[batch[i]].change_date)
  ELSE IF AllRows[batch[i]].start_date # <<>> THEN DigitsToNat(AllRows[batch[i]].start_date)
  ELSE clock

\* the load closed version v of listing l at the effective timestamp of row i
\* and added exactly one version, open, from that timestamp, with the facts
\* of row i
OpenedOne(l, i, v) ==
  LET was == VersionsOf(pre.listing_version, l)
      now == VersionsOf(db.listing_version, l)
      closed == [v EXCEPT !.valid_to = Some(EffectiveTs(i))]
      added == now \ ((was \ {v}) \cup {closed})
  IN /\ closed \in now
     /\ v \notin now
     /\ (was \ {v}) \subseteq now
     /\ Cardinality(added) = 1
     /\ \A w \in added : /\ w.valid_from = EffectiveTs(i)
                         /\ w.valid_to = Null
                         /\ ~FactsDiffer(w, Staged[batch[i]])

\* C5 as stated: a committed load of a row whose facts differ from the open
\* version of its listing closes that version at the row's effective
\* timestamp and opens exactly one version from that timestamp.
C5_ChangeOpensOneVersion ==
  pc = "committed" =>
    \A l \in 1..Len(pre.listing) : \A v \in OpenVersions(pre.listing_version, l) :
      \A i \in BatchRowsOf(l) :
         FactsDiffer(v, Staged[batch[i]]) => OpenedOne(l, i, v)

\* C5 amended: the same when the row's effective timestamp is later than
\* the valid_from of the open version.
C5_LaterChangeOpensOneVersion ==
  pc = "committed" =>
    \A l \in 1..Len(pre.listing) : \A v \in OpenVersions(pre.listing_version, l) :
      \A i \in BatchRowsOf(l) :
         (FactsDiffer(v, Staged[batch[i]]) /\ EffectiveTs(i) > v.valid_from)
           => OpenedOne(l, i, v)

\* a committed load of a changed row with a later timestamp, for a listing
\* that already had a closed version
C5_Witness ==
  /\ pc = "committed"
  /\ \E l \in 1..Len(pre.listing) : \E v \in OpenVersions(pre.listing_version, l) :
       \E i \in BatchRowsOf(l) :
          /\ FactsDiffer(v, Staged[batch[i]])
          /\ EffectiveTs(i) > v.valid_from
          /\ OpenedOne(l, i, v)
          /\ Cardinality(VersionsOf(db.listing_version, l)) = 3

\* C8: a load never fails because a value of a row cannot be cast.
C8_RowErrorsNeverFatal == pc = "failed" => cause # "cast"

\* a text that is not of the form -?digits(.digits)?
NonNumeric(s) == s # <<>> /\ ~MatchesDecimal(s)

ValidArea(s) == MatchesDecimal(s) /\ ToNumeric(s)[1] >= 0

\* listing l has a version with unknown price and the area parsed from s
PriceUnknownAreaKept(l, s) ==
  \E v \in VersionsOf(db.listing_version, l) :
     v.price = Null /\ v.area = Some(ToNumeric(s))

\* C9: after a committed load, a row of a resolvable listing with a
\* non-numeric price and a valid area has given a version with unknown price
\* and the parsed area.
C9_NonNumericPriceUnknown ==
  pc = "committed" =>
    \A i \in DOMAIN batch : \A l \in ListingOf(db, Staged[batch[i]]) :
       (NonNumeric(AllRows[batch[i]].price) /\ ValidArea(AllRows[batch[i]].area))
         => PriceUnknownAreaKept(l, AllRows[batch[i]].area)

CodeColumns == {"transaction_type", "item_type", "city"}

\* C10 as stated: after a committed load, two rows of the batch whose codes
\* are equal once trimmed and lowered share one dimension row.
C10_DedupCaseAndSpace ==
  pc = "committed" =>
    \A i, j \in DOMAIN batch : \A col \in CodeColumns :
       (/\ ~IsBlank(AllRows[batch[i]][col])
        /\ lower(btrim(AllRows[batch[i]][col])) = lower(btrim(AllRows[batch[j]][col])))
         => Cardinality({k \in DOMAIN db[col] :
                           lower(btrim(db[col][k])) = lower(btrim(AllRows[batch[i]][col]))}) = 1

\* C10 amended: two rows of the batch whose codes are equal once the spaces
\* around them are removed share one dimension row, and the listings they
\* give carry the same transaction type id.
C10_DedupSpace ==
  pc = "committed" =>
    \A i, j \in DOMAIN batch :
      /\ \A col \in CodeColumns :
           (/\ ~IsBlank(AllRows[batch[i]][col])
            /\ btrim(AllRows[batch[i]][col]) = btrim(AllRows[batch[j]][col]))
             => Cardinality({k \in DOMAIN db[col] :
                               btrim(db[col][k]) = btrim(AllRows[batch[i]][col])}) = 1
      /\ (/\ ~IsBlank(AllRows[batch[i]].transaction_type)
          /\ btrim(AllRows[batch[i]].transaction_type)
               = btrim(AllRows[batch[j]].transaction_type))
           => \A li \in ListingOf(db, Staged[batch[i]]) :
                \A lj \in ListingOf(db, Staged[batch[j]]) :
                   db.listing[li].transaction_type_id = db.listing[lj].transaction_type_id

\* a committed load of two rows of two listings whose transaction type is
\* spelled with and without spaces around it
C10_Witness ==
  /\ pc = "committed"
  /\ \E i, j \in DOMAIN batch :
       /\ AllRows[batch[i]].transaction_type # AllRows[batch[j]].transaction_type
       /\ btrim(AllRows[batch[i]].transaction_type)
            = btrim(AllRows[batch[j]].transaction_type)
       /\ ~IsBlank(AllRows[batch[i]].transaction_type)
       /\ \E li \in ListingOf(db, Staged[batch[i]]) :
            \E lj \in ListingOf(db, Staged[batch[j]]) :
               /\ li # lj
               /\ db.listing[li].transaction_type_id = db.listing[lj].transaction_type_id

NoDuplicates(tbl) == \A i, j \in DOMAIN tbl : tbl[i] = tbl[j] => i = j

Range(tbl) == {tbl[k] : k \in DOMAIN tbl}

\* the codes that the rows of the batch of this run present for a dimension
\* (zipcode: the normalized code)
BatchCodes(col) ==
  IF col = "zipcode"
  THEN {Staged[batch[i]].zipcode[1] :
          i \in {k \in DOMAIN batch : Staged[batch[k]].zipcode # Null}}
  ELSE {btrim(AllRows[batch[i]][col]) :
          i \in {k \in DOMAIN batch : ~IsBlank(AllRows[batch[k]][col])}}

\* C11: no dimension table and no location ever holds a key twice; a
\* committed load keeps the rows that were there and adds exactly the codes
\* of its batch that were not (an existing code adds nothing); the dimension
\* and location steps raise only for reasons outside the data.
C11_DimensionKeysUnique ==
  /\ \A tbl \in {"transaction_type", "item_type", "item_subtype", "city",
                 "zipcode", "location"} : NoDuplicates(db[tbl])
  /\ pc = "committed" =>
       \A col \in CodeColumns \cup {"zipcode"} :
          /\ Len(db[col]) >= Len(pre[col])
          /\ SubSeq(db[col], 1, Len(pre[col])) = pre[col]
          /\ {db[col][k] : k \in (Len(pre[col]) + 1)..Len(db[col])}
               = BatchCodes(col) \ Range(pre[col])
  /\ (pc = "failed" /\ failedAt \in {"dims", "locs"}) => cause = "external"

\* a committed load presented a transaction type that was stored and one
\* that was not, and a stored item subtype and location
C11_Witness ==
  /\ pc = "committed"
  /\ BatchCodes("transaction_type") \cap Range(pre.transaction_type) # {}
  /\ Len(db.transaction_type) > Len(pre.transaction_type)
  /\ pre.item_subtype # <<>> /\ db.item_subtype = pre.item_subtype
  /\ pre.location # <<>> /\ db.location = pre.location

DescriptionsOf(t, l) == {d \in t.listing_description : d.listing_id = l}

\* the rows of the batch of this run that join listing l and carry a
\* non-empty description
DescribedRowsOf(l) ==
  {i \in BatchRowsOf(l) : ~IsBlank(AllRows[batch[i]].description_fr)}

\* C12: a listing never has two description rows; after a committed load
\* the description of a listing for which the batch carried non-empty
\* descriptions is one of them, trimmed, and none of them is longer, whatever
\* was stored before; the description of any other listing is as it was.
C12_LongestDescriptionStored ==
  /\ \A l \in 1..Len(db.listing) : Cardinality(DescriptionsOf(db, l)) <= 1
  /\ pc = "committed" =>
       \A l \in 1..Len(db.listing) :
          IF DescribedRowsOf(l) = {}
          THEN DescriptionsOf(db, l) = DescriptionsOf(pre, l)
          ELSE \E d \in DescriptionsOf(db, l) :
                 /\ \E i \in DescribedRowsOf(l) :
                       d.body = btrim(AllRows[batch[i]].description_fr)
                 /\ \A j \in DescribedRowsOf(l) :
                       Len(btrim(AllRows[batch[j]].description_fr)) <= Len(d.body)

\* a committed load carried two descriptions of different lengths for a
\* listing whose stored description was longer than both
C12_Witness ==
  /\ pc = "committed"
  /\ \E l \in 1..Len(db.listing) : \E i, j \in DescribedRowsOf(l) :
       /\ Len(btrim(AllRows[batch[i]].description_fr))
            < Len(btrim(AllRows[batch[j]].description_fr))
       /\ \E d \in DescriptionsOf(pre, l) : \E e \in DescriptionsOf(db, l) :
            /\ Len(d.body) > Len(e.body)
            /\ e.body = btrim(AllRows[batch[j]].description_fr)

\* C13: no step of the snapshot refresh, whether it succeeds or raises,
\* changes a table, and after a refresh that failed the tables are those the
\* load committed: what the load committed stays committed.
C13_RefreshKeepsCommit ==
  /\ [][(pc = "committed") => (db' = db)]_vars
  /\ []((pc = "failed" /\ failedAt = "refresh") => (dirty <=> db # pre))

\* the refresh failed after a load that had written, and the tables still
\* hold what it wrote
C13_Witness ==
  /\ pc = "failed" /\ failedAt = "refresh"
  /\ dirty
  /\ db # pre
  /\ db.listing_version # pre.listing_version

\* C14: once the refresh after a committed load has succeeded, the snapshot
\* holds exactly one row for each listing that has an open version, with the
\* facts and valid_from of that version, and no other row.
C14_SnapshotIsOpenVersions ==
  pc = "refreshed" =>
    /\ \A l \in 1..Len(db.listing) : \A v \in OpenVersions(db.listing_version, l) :
         /\ Cardinality({r \in mv : r.id = l}) = 1
         /\ \A r \in mv :
              r.id = l => /\ r.valid_from = v.valid_from
                          /\ \A f \in FactFields : r[f] = v[f]
                          /\ r.external_listing_id = db.listing[l].external_listing_id
    /\ \A r \in mv : OpenVersions(db.listing_version, r.id) # {}

\* the snapshot shows the new price of a listing whose earlier version, with
\* another price, was closed by the load just refreshed
C14_Witness ==
  /\ pc = "refreshed"
  /\ \E r \in mv : \E v \in db.listing_version :
       /\ v.listing_id = r.id
       /\ v.valid_to = Some(r.valid_from)
       /\ v.price # r.price
       /\ v \notin pre.listing_version

\* the rows of the concurrent tables under their natural keys
NaturalConc(com) ==
  [transaction_type |-> {x.key : x \in com.transaction_type},
   item_type |-> {x.key : x \in com.item_type},
   item_subtype |-> {<<x.key.it.key, x.key.code>> : x \in com.item_subtype},
   city |-> {x.key : x \in com.city},
   zipcode |-> {x.key : x \in com.zipcode},
   location |-> {<<x.key.city.key, x.key.zip.key>> : x \in com.location},
   listing |-> {<<x.key, x.ref.tt.key, x.ref.st.key.it.key, x.ref.st.key.code,
                  x.ref.loc.key.city.key, x.ref.loc.key.zip.key>>
                : x \in com.listing},
   listing_description |-> {<<x.key.key, x.body>> : x \in com.listing_description},
   listing_version |-> {v.listing_id.key
                        : v \in {w \in com.listing_version : w.valid_to = Null}}]

\* the rows of the tables of one loader under the same natural keys
NaturalDb(t) ==
  LET sub(i) == <<t.item_type[t.item_subtype[i].item_type_id], t.item_subtype[i].code>>
      loc(i) == <<t.city[t.location[i].city_id], t.zipcode[t.location[i].zipcode_id]>>
  IN [transaction_type |-> Range(t.transaction_type),
      item_type |-> Range(t.item_type),
      item_subtype |-> {sub(i) : i \in DOMAIN t.item_subtype},
      city |-> Range(t.city),
      zipcode |-> Range(t.zipcode),
      location |-> {loc(i) : i \in DOMAIN t.location},
      listing |-> {<<x.external_listing_id[1], t.transaction_type[x.transaction_type_id],
                     sub(x.item_subtype_id)[1], sub(x.item_subtype_id)[2],
                     loc(x.location_id)[1], loc(x.location_id)[2]>>
                   : x \in Range(t.listing)},
      listing_description |-> {<<t.listing[d.listing_id].external_listing_id[1], d.body>>
                               : d \in t.listing_description},
      listing_version |-> {t.listing[v.listing_id].external_listing_id[1]
                           : v \in {w \in t.listing_version : w.valid_to = Null}}]

\* the tables after the CSVs rs are loaded one after the other, each by a
\* run that nothing interrupts
RECURSIVE Sequential(_, _, _)
Sequential(t, rs, nowTs) ==
  IF rs = <<>> THEN t
  ELSE Sequential(run_pipeline_tx(t, RowsOf(<<Head(rs)>>), nowTs, <<1>>, 0).written,
                  Tail(rs), nowTs + 2)

BothEnded == conc # Null /\ \A p \in 1..2 : conc.tx[p].step \in {"done", "aborted"}

\* C15: two loaders that run at the same time on CSVs with different
\* business keys both commit, whatever the interleaving; no table then
\* holds two rows with one key, every listing has at most one open version,
\* and the tables are those of loading the two CSVs one after the other.
C15_ConcurrentLoadersSafe ==
  BothEnded =>
    /\ \A p \in 1..2 : conc.tx[p].step = "done"
    /\ \A t \in CTableSet \ {"listing_version"} :
         \A x, y \in conc.com[t] : x.key = y.key => x = y
    /\ \A l \in conc.com.listing :
         Cardinality({v \in conc.com.listing_version :
                        v.listing_id.key = l.key /\ v.valid_to = Null}) <= 1
    /\ NaturalConc(conc.com) = NaturalDb(Sequential(EmptyDb, conc.rows, 2))

\* version v of the tables before is in lv as it was, or closed since
Kept(lv, v) ==
  \E w \in lv :
     /\ w.listing_id = v.listing_id
     /\ w.valid_from = v.valid_from
     /\ \A f \in FactFields : w[f] = v[f]
     /\ v.valid_to # Null => w.valid_to = v.valid_to

\* C16: loading a CSV again is a safe recovery.  After a run that raised
\* inside its transaction, or whose refresh failed after its commit, the
\* same CSV loaded again with success leaves the tables that loading it once
\* leaves: where the first load had committed, the second changes nothing;
\* no version is lost and no closed version is closed again.
C16_RerunIsSafeRecovery ==
  (pc = "committed" /\ recovers \in {"abort", "publish"}) =>
     /\ recovers = "publish" => db = pre
     /\ \A v \in pre.listing_version : Kept(db.listing_version, v)
     /\ \A v, w \in db.listing_version :
          (v.listing_id = w.listing_id /\ v.valid_from = w.valid_from) => v = w

\* the positions of s at which a run of n digits starts
DigitRuns(s, n) ==
  {i \in 1..(Len(s) - n + 1) : \A k \in i..(i + n - 1) : s[k] \in Digits}

\* the code that the rule of the data contract gives a zip string: a run of
\* five digits if there is one (or the digits, if they are five), the four
\* digits behind one zero if the digits are four, else unknown
ContractZip(s) ==
  IF DigitRuns(s, 5) # {}
  THEN Some(SubSeq(s, SetMin(DigitRuns(s, 5)), SetMin(DigitRuns(s, 5)) + 4))
  ELSE IF Len(StripTo(s, Digits)) = 5 THEN Some(StripTo(s, Digits))
  ELSE IF Len(StripTo(s, Digits)) = 4 THEN Some(<<"0">> \o StripTo(s, Digits))
  ELSE Null

\* C17: for every zip string the loader's normalized code is the run of five
\* digits where one can be extracted, the four digits padded with one zero
\* where the digits are four, and unknown otherwise (empty, fewer than four
\* digits, no digit); a code that is not unknown is five digits.
C17_ZipNormalization ==
  zout.done =>
    /\ zout.code = ContractZip(zin)
    /\ zout.code # Null =>
         Len(zout.code[1]) = 5 /\ \A k \in 1..5 : zout.code[1][k] \in Digits

\* the transaction type, the item subtype under its item type and the
\* location (city and normalized zip) of a staged row are all there
Resolves(r) ==
  /\ r.transaction_type # Null
  /\ r.item_type # Null /\ r.item_subtype # Null
  /\ r.city # Null /\ r.zipcode # Null

\* the listing of staged row r is stored with the master attributes of r
UpsertedAs(t, r) ==
  \E l \in DOMAIN t.listing :
    LET x == t.listing[l]
    IN /\ x.external_listing_id = r.listing_id
       /\ t.transaction_type[x.transaction_type_id] = r.transaction_type[1]
       /\ t.item_subtype[x.item_subtype_id].code = r.item_subtype[1]
       /\ t.item_type[t.item_subtype[x.item_subtype_id].item_type_id] = r.item_type[1]
       /\ t.city[t.location[x.location_id].city_id] = r.city[1]
       /\ t.zipcode[t.location[x.location_id].zipcode_id] = r.zipcode[1]
       /\ x.build_year = r.build_year
       /\ x.is_new_construction = r.is_new_construction
       /\ x.has_passenger_lift = r.has_passenger_lift
       /\ x.has_cellar = r.has_cellar
       /\ x.is_furnished = r.is_furnished

\* the stored listing rows with business key k, each with its id
ListingRows(t, k) ==
  {<<l, t.listing[l]>> : l \in {i \in DOMAIN t.listing : t.listing[i].external_listing_id = k}}

\* C18: a row of the CSV is left out of the upsert of listing exactly when
\* its transaction type, its item subtype or its location does not resolve:
\* in a committed load every resolving row is stored with its attributes,
\* and a key whose rows all fail to resolve keeps the listing row it had (or
\* none).  Rows that do not resolve never make the statement raise: when it
\* raises by itself, two resolving rows share a business key or the year of
\* a resolving row overflows the integer cast.  A zipcode or location row is
\* only created by a row whose zip normalizes, which "ABCDE" does not.
C18_UnresolvedRowsLeftOut ==
  /\ pc = "committed" =>
       /\ \A i \in DOMAIN batch :
            LET r == Staged[batch[i]]
            IN /\ Resolves(r) => UpsertedAs(db, r)
               /\ (\A j \in DOMAIN batch :
                     Staged[batch[j]].listing_id = r.listing_id
                        => ~Resolves(Staged[batch[j]]))
                  => ListingRows(db, r.listing_id) = ListingRows(pre, r.listing_id)
       /\ \A z \in Range(db.zipcode) \ Range(pre.zipcode) :
            \E i \in DOMAIN batch : Staged[batch[i]].zipcode = Some(z)
       /\ \A n \in (Len(pre.location) + 1)..Len(db.location) :
            \E i \in DOMAIN batch :
               /\ Staged[batch[i]].zipcode = Some(db.zipcode[db.location[n].zipcode_id])
               /\ Staged[batch[i]].city = Some(db.city[db.location[n].city_id])
  /\ (pc = "failed" /\ failedAt \in {"dims", "locs", "listings"} /\ cause # "external")
       => \/ \E i, j \in DOMAIN batch :
                /\ i < j
                /\ Staged[batch[i]].listing_id = Staged[batch[j]].listing_id
                /\ Resolves(Staged[batch[i]]) /\ Resolves(Staged[batch[j]])
          \/ \E i \in DOMAIN batch :
                Resolves(Staged[batch[i]]) /\ Staged[batch[i]].year_raises

\* a committed load of a row with zip "ABCDE", left out with no zipcode or
\* location row added, and of a row of another listing that was upserted
C18_Witness ==
  /\ pc = "committed"
  /\ \E i, j \in DOMAIN batch :
       /\ AllRows[batch[i]].zipcode = <<"A", "B", "C", "D", "E">>
       /\ ~Resolves(Staged[batch[i]])
       /\ ListingRows(db, Staged[batch[i]].listing_id) = {}
       /\ Resolves(Staged[batch[j]])
       /\ ListingRows(pre, Staged[batch[j]].listing_id) = {}
       /\ UpsertedAs(db, Staged[batch[j]])
       /\ Len(db.zipcode) = 1 /\ Len(db.location) = 1

\* null-aware inequality of two nullable values
NullAwareDiffers(a, b) ==
  \/ a = Null /\ b # Null
  \/ a # Null /\ b = Null
  \/ a # Null /\ b # Null /\ a[1] # b[1]

\* row i of the CSV is in the incoming facts: its business key is a listing
JoinedRows == {i \in DOMAIN batch : ListingOf(db, Staged[batch[i]]) # {}}

\* it is a delta by the rule: its listing had no open version when the run
\* started, or one of the eight facts of the open version differs
DeltaByRule(i) ==
  \E l \in ListingOf(db, Staged[batch[i]]) :
     \/ OpenVersions(pre.listing_version, l) = {}
     \/ \E v \in OpenVersions(pre.listing_version, l) :
          \E f \in FactFields : NullAwareDiffers(v[f], Staged[batch[i]][f])

\* C19: in a committed load the rows that the Delta Engine counts as delta
\* are the incoming rows whose listing has no open version or whose facts
\* differ from it in one of the eight historized fields under null-aware
\* inequality; a row that differs only in a master attribute or in its
\* timestamps is none.
C19_DeltaDetection ==
  pc = "committed" =>
     /\ logged # Null
     /\ logged[1].incoming = Cardinality(JoinedRows)
     /\ logged[1].delta = Cardinality({i \in JoinedRows : DeltaByRule(i)})

\* a committed load of a row that changes a master attribute of its listing
\* and carries a later timestamp than the open version, counted as no delta
C19_Witness ==
  /\ pc = "committed"
  /\ logged # Null /\ logged[1].incoming = 1 /\ logged[1].delta = 0
  /\ \E i \in DOMAIN batch : \E l \in ListingOf(pre, Staged[batch[i]]) :
       /\ pre.listing[l].is_furnished # Staged[batch[i]].is_furnished
       /\ db.listing[l].is_furnished = Staged[batch[i]].is_furnished
       /\ \E v \in OpenVersions(pre.listing_version, l) :
            /\ Staged[batch[i]].change_ts # Null
            /\ v.valid_from < Staged[batch[i]].change_ts[1]
            /\ v \in db.listing_version

\* the business keys of the rows of the CSV
BatchKeys == {Staged[batch[i]].listing_id : i \in DOMAIN batch}

\* the versions of listing l that this run inserted
InsertedVersions(l) ==
  {v \in VersionsOf(db.listing_version, l) :
     \A w \in VersionsOf(pre.listing_version, l) : w.valid_from # v.valid_from}

\* C20: within one load the Delta Engine holds at most one incoming fact
\* and at most one delta per listing, also when a business key is in two
\* rows of the CSV; a committed load has inserted at most one version per
\* listing.
C20_OneFactPerListing ==
  /\ logged # Null =>
       /\ logged[1].incoming <= Cardinality(BatchKeys)
       /\ "delta" \in DOMAIN logged[1] =>
            logged[1].delta <= Cardinality(BatchKeys)
  /\ pc = "committed" =>
       \A l \in DOMAIN db.listing : Cardinality(InsertedVersions(l)) <= 1

\* the versions that were open when this run started and are so no longer
ClosedByRun == {v \in pre.listing_version : v.valid_to = Null /\ v \notin db.listing_version}

\* the open versions that this run inserted
OpenedByRun == {w \in db.listing_version \ pre.listing_version : w.valid_to = Null}

\* C21: no version has valid_to before its valid_from; a committed load
\* closes a version only at the effective timestamp of a row of its listing
\* that differs from it and is stamped no earlier than the version starts;
\* and a version that the load opens starts no earlier than the version
\* that was open before.
C21_NoNegativeInterval ==
  /\ \A v \in db.listing_version :
       v.valid_to # Null => v.valid_from <= v.valid_to[1]
  /\ pc = "committed" =>
       /\ \A v \in ClosedByRun :
            \E i \in BatchRowsOf(v.listing_id) :
               /\ FactsDiffer(v, Staged[batch[i]])
               /\ EffectiveTs(i) >= v.valid_from
               /\ [v EXCEPT !.valid_to = Some(EffectiveTs(i))] \in db.listing_version
       /\ \A w \in OpenedByRun :
            \A v \in OpenVersions(pre.listing_version, w.listing_id) :
               w.valid_from >= v.valid_from

\* a committed load that left the open version of a listing alone because
\* the changed row is stamped before it, on a listing with a closed version
C21_Witness ==
  /\ pc = "committed"
  /\ \E v \in pre.listing_version : \E i \in BatchRowsOf(v.listing_id) :
       /\ v.valid_to = Null
       /\ FactsDiffer(v, Staged[batch[i]])
       /\ EffectiveTs(i) < v.valid_from
       /\ v \in db.listing_version
       /\ \E u \in db.listing_version :
            u.listing_id = v.listing_id /\ u.valid_to = Some(v.valid_from)
                                        /\ u.valid_from < v.valid_from

\* C22: history is append-only.  A version whose valid_to is set is in the
\* table, with every field as it was, after each step of every later run;
\* so a version is closed at most once.
C22_AppendOnlyHistory ==
  [][\A v \in db.listing_version :
       v.valid_to # Null => v \in db'.listing_version]_vars

\* a committed load that wrote versions of a listing that had a closed one
C22_Witness ==
  /\ pc = "committed"
  /\ \E v \in pre.listing_version :
       /\ v.valid_to # Null
       /\ v \in db.listing_version
       /\ VersionsOf(db.listing_version, v.listing_id)
            # VersionsOf(pre.listing_version, v.listing_id)

\* C23: no two versions of one listing start at the same valid_from, also
\* after a changed row stamped with the valid_from of the open version.
C23_ValidFromUnique ==
  \A v, w \in db.listing_version :
     (v.listing_id = w.listing_id /\ v.valid_from = w.valid_from) => v = w

\* a changed row stamped with the valid_from of the open version of its
\* listing: the SCD2 step raised and the load was rolled back
C23_Witness ==
  /\ pc = "failed" /\ failedAt = "scd2" /\ cause = "conflict"
  /\ db = pre
  /\ \E v \in pre.listing_version : \E i \in BatchRowsOf(v.listing_id) :
       /\ v.valid_to = Null
       /\ FactsDiffer(v, Staged[batch[i]])
       /\ EffectiveTs(i) = v.valid_from

\* the rows of the batch that version w can have been inserted for: rows of
\* its listing with its facts and with its valid_from as effective timestamp
SourceRows(w) ==
  {i \in BatchRowsOf(w.listing_id) :
     EffectiveTs(i) = w.valid_from /\ ~FactsDiffer(w, Staged[batch[i]])}

\* C24 as stated: a version that a committed load opens starts at the
\* effective timestamp of its row (change timestamp, else start timestamp,
\* else the time of the load), and its source_change_ts is that same
\* timestamp.
C24_EffectiveTsIsAudit ==
  pc = "committed" =>
    \A w \in OpenedByRun :
       SourceRows(w) # {} /\ w.source_change_ts = Some(w.valid_from)

\* C24 amended: it starts at the effective timestamp of its row, and its
\* source_change_ts is the change timestamp of that row, NULL when the row
\* has none.
C24_EffectiveTsIsValidFrom ==
  pc = "committed" =>
    \A w \in OpenedByRun :
       \E i \in SourceRows(w) : w.source_change_ts = Staged[batch[i]].change_ts

\* a committed load opened a version from a row that has a start timestamp
\* and no change timestamp, at a time of load that differs from it
C24_Witness ==
  /\ pc = "committed"
  /\ \E w \in OpenedByRun : \E i \in SourceRows(w) :
       /\ AllRows[batch[i]].change_date = <<>>
       /\ AllRows[batch[i]].start_date # <<>>
       /\ w.valid_from = DigitsToNat(AllRows[batch[i]].start_date)
       /\ w.valid_from # clock
       /\ w.source_change_ts = Null

\* row i of the batch brings listing l back to the facts of its closed
\* version u, away from those of its open version v
Reverts(l, i, u, v) ==
  /\ u \in VersionsOf(pre.listing_version, l) /\ u.valid_to # Null
  /\ v \in OpenVersions(pre.listing_version, l)
  /\ i \in BatchRowsOf(l)
  /\ ~FactsDiffer(u, Staged[batch[i]])
  /\ FactsDiffer(v, Staged[batch[i]])

\* C25 as stated: a committed load of a row that brings back the facts of a
\* closed version closes the open version and opens one new version; the
\* closed version stays as it is.
C25_RevertOpensNewVersion ==
  pc = "committed" =>
    \A l \in 1..Len(pre.listing) : \A u, v \in VersionsOf(pre.listing_version, l) :
      \A i \in DOMAIN batch :
         Reverts(l, i, u, v) => (OpenedOne(l, i, v) /\ u \in db.listing_version)

\* C25 amended: the same when the row is stamped later than the open
\* version starts.
C25_LaterRevertOpensNewVersion ==
  pc = "committed" =>
    \A l \in 1..Len(pre.listing) : \A u, v \in VersionsOf(pre.listing_version, l) :
      \A i \in DOMAIN batch :
         (Reverts(l, i, u, v) /\ EffectiveTs(i) > v.valid_from)
           => (OpenedOne(l, i, v) /\ u \in db.listing_version)

\* a committed load of such a row: the listing has the old closed version,
\* the version closed by this load and a new open one with the old facts
C25_Witness ==
  /\ pc = "committed"
  /\ \E l \in 1..Len(pre.listing) : \E u, v \in VersionsOf(pre.listing_version, l) :
       \E i \in DOMAIN batch :
          /\ Reverts(l, i, u, v)
          /\ EffectiveTs(i) > v.valid_from
          /\ OpenedOne(l, i, v)
          /\ u \in db.listing_version
          /\ \E w \in OpenVersions(db.listing_version, l) :
               ~FactsDiffer(w, u) /\ w.valid_from > u.valid_to[1]

\* C26: in a committed load every row whose dimension codes resolve has
\* its listing stored once, under the id it had before if it had one and
\* under a new id otherwise, with the dimension references and master
\* attributes of the row, unknown ones included.  In every state a business
\* key has one listing row, and a listing row keeps its id and key.
C26_MasterUpsert ==
  /\ pc = "committed" =>
       \A i \in DOMAIN batch :
          LET r == Staged[batch[i]]
          IN Resolves(r) =>
               /\ UpsertedAs(db, r)
               /\ Cardinality(ListingRows(db, r.listing_id)) = 1
               /\ \A x \in ListingRows(db, r.listing_id) :
                    IF ListingRows(pre, r.listing_id) = {}
                    THEN x[1] > Len(pre.listing)
                    ELSE \E y \in ListingRows(pre, r.listing_id) : y[1] = x[1]
  /\ \A l, m \in DOMAIN db.listing :
       db.listing[l].external_listing_id = db.listing[m].external_listing_id => l = m
  /\ \A l \in DOMAIN pre.listing :
       /\ l \in DOMAIN db.listing
       /\ db.listing[l].external_listing_id = pre.listing[l].external_listing_id

\* a committed load of a resolving row with an unknown master attribute, on
\* a listing that had it known, in a table of two listings
C26_Witness ==
  /\ pc = "committed"
  /\ \E i \in DOMAIN batch : \E y \in ListingRows(pre, Staged[batch[i]].listing_id) :
       /\ Resolves(Staged[batch[i]])
       /\ y[2].is_furnished # Null
       /\ Staged[batch[i]].is_furnished = Null
       /\ db.listing[y[1]].is_furnished = Null
       /\ Len(db.listing) = 2

\* tables a and b differ at most in the tables named in written
OnlyWrites(a, b, written) == \A f \in DOMAIN EmptyDb \ written : a[f] = b[f]

\* the steps of the transaction of this run, replayed on the tables it
\* started from, each write only their own tables
StepsWriteOwnTables ==
  staged =>
    \A ord \in Perms(Len(batch)) :
      \E s2 \in {upsert_dimensions(pre, RowsOf(batch))} :
      \E s3 \in {upsert_cities_zipcodes_locations(s2, RowsOf(batch))} :
      \E s4 \in {upsert_listings(s3, RowsOf(batch))} :
      \E s5 \in {upsert_descriptions(s4, RowsOf(batch), ord)} :
         /\ OnlyWrites(pre, s2, {"transaction_type", "item_type", "item_subtype"})
         /\ OnlyWrites(s2, s3, {"city", "zipcode", "location"})
         /\ OnlyWrites(s3, s4, {"listing"})
         /\ OnlyWrites(s4, s5, {"listing_description"})
         /\ OnlyWrites(s5, build_incoming_and_apply_scd2(s5, RowsOf(batch), clock, ord).tables,
                       {"listing_version"})

\* C27: write ownership.  Inside the transaction the dimension steps write
\* only the dimension and location tables, the master upsert only listing,
\* the description step only listing_description and the SCD2 step only
\* listing_version; the refresh of the snapshot and the diagnostics write no
\* table.
C27_WriteOwnership ==
  /\ []StepsWriteOwnTables
  /\ [][(pc \in {"committed", "refreshed"}) => (db' = db)]_vars

\* a committed load in which each of the four kinds of step wrote, since
\* refreshed and checked by the diagnostics
C27_Witness ==
  /\ pc = "complete"
  /\ pre # EmptyDb
  /\ db.transaction_type # pre.transaction_type
  /\ db.listing # pre.listing
  /\ db.listing_version # pre.listing_version
  /\ mv = listing_current(db)

\* C28: the snapshot is refreshed only after the transaction of the run has
\* committed.  The view changes, and a run enters a refresh attempt or its
\* outcome, only from a committed load; after a run that raised before its
\* commit no refresh follows and the view stays as it was.
C28_RefreshAfterCommit ==
  [][/\ (mv' # mv) => (pc = "committed")
     /\ (pc' = "refreshed") => (pc = "committed")
     /\ (pc' = "failed" /\ failedAt' = "refresh") => (pc = "committed")
     /\ (pc = "failed" /\ failedAt # "refresh")
          => (mv' = mv /\ pc' \in {"idle", "committed", "failed"})]_vars

\* the transaction of a run raised while the view held rows of an earlier
\* load
C28_Witness ==
  /\ pc = "failed" /\ staged /\ failedAt # "refresh"
  /\ dirty
  /\ mv # {}
  /\ mv = listing_current(db)

\* C29: the snapshot is always the projection of the tables as they were
\* committed at the last refresh that succeeded.  It starts as the
\* projection of the empty tables; it changes only in a refresh, to the
\* projection of the tables committed at that moment, never in a step that
\* writes or rolls back a table; and once a refresh has succeeded it is the
\* projection of the tables as they are.
C29_SnapshotOfCommittedLoad ==
  /\ mv = listing_current(EmptyDb)
  /\ [][(mv' # mv) => /\ pc = "committed"
                      /\ db' = db
                      /\ mv' = listing_current(db)]_vars
  /\ [](pc = "refreshed" => mv = listing_current(db))

\* the refresh failed after a commit that changed the open versions: the
\* view shows the load before it
C29_Witness ==
  /\ pc = "failed" /\ failedAt = "refresh"
  /\ mv # {}
  /\ mv = listing_current(pre)
  /\ mv # listing_current(db)

\* ---------------------------------------------------------------------------
\* C30  Refresh fallback: the non-blocking refresh is tried first; the blocking
\* refresh is tried if and only if the non-blocking one failed, and once; when
\* the blocking refresh succeeds the run goes on to diagnostics and ends
\* successfully.
\* tries counts the REFRESH statements the run has sent.  None is sent before
\* the commit and every step after the commit sends the first; a run that
\* has refreshed sent one or two and never a third; a run fails at the
\* refresh only when the second, the blocking one, was sent and raised too;
\* from "refreshed" the only step is diagnostics, which ends the run with no
\* failure recorded.
RefreshTriesInOrder ==
  /\ tries \in {0, 1, 2}
  /\ pc = "committed" => tries = 0
  /\ pc \in {"refreshed", "complete"} => tries \in {1, 2}
  /\ (pc = "failed" /\ failedAt = "refresh") => tries = 2

C30_RefreshFallback ==
  /\ []RefreshTriesInOrder
  /\ [][/\ (pc = "committed") => (tries' = 1)
        /\ (tries' = 2) => (tries \in {1, 2})
        /\ (pc = "refreshed") =>
             (pc' = "complete" /\ failedAt' = "none" /\ tries' = tries)]_vars

\* ---------------------------------------------------------------------------
\* C31  Every run of the pipeline terminates: it eventually reaches
\* "complete" or a reported failure, with the transaction committed or rolled
\* back and the connection closed; a failed non-blocking refresh leads to the
\* blocking refresh and not to a retry loop.
\* Under LiveSpec.  A run that is past its transaction ends; when it has
\* ended the connection is closed and the tables are those before the run
\* (the transaction raised) or those the transaction changed and committed
\* (RunEndsSettled).  A run that failed at the refresh sent the blocking
\* REFRESH after the non-blocking one, and no run sends a third.
RunEnded == pc \in {"complete", "failed"}

TransactionSettled ==
  /\ (pc = "failed" /\ failedAt = "header") => (~staged /\ db = pre)
  /\ (pc = "failed" /\ failedAt \in Range(Steps)) => (staged /\ db = pre)
  /\ (pc = "complete" \/ (pc = "failed" /\ failedAt = "refresh")) =>
       (staged /\ (dirty <=> db # pre))

RunEndsSettled ==
  /\ [](RunEnded => (~connected /\ TransactionSettled))
  /\ [](connected <=> pc \in {"committed", "refreshed"})
  /\ (pc \in {"committed", "refreshed"}) ~> RunEnded

C31_RunTerminates ==
  /\ RunEndsSettled
  /\ [](tries <= 2)
  /\ []((pc = "failed" /\ failedAt = "refresh") => tries = 2)

\* the tables that upsert_descriptions of this run was given: the master
\* upsert replayed on the tables the run started from
BeforeDescriptions ==
  upsert_listings(
    upsert_cities_zipcodes_locations(
      upsert_dimensions(pre, RowsOf(batch)), RowsOf(batch)), RowsOf(batch))

\* ---------------------------------------------------------------------------
\* C32  Description choice is deterministic: when two rows of one batch for
\* the same business key carry different non-empty descriptions of equal
\* (maximal) length, the stored description is the same in every run on the
\* same batch and state.
\* As a property of a committed load: the descriptions it stored are those
\* that upsert_descriptions stores from the same tables and the same batch
\* under every order in which ROW_NUMBER may number rows of equal length.
C32_DescriptionChoiceDeterministic ==
  pc = "committed" =>
    \E s4 \in {BeforeDescriptions} :
      \A ord \in Perms(Len(batch)) :
        upsert_descriptions(s4, RowsOf(batch), ord).listing_description
          = db.listing_description

\* the number that the text s denotes, when it is a decimal number
DenotesNumber(s) == MatchesDecimal(btrim(s))
Denoted(s) == ToNumeric(btrim(s))

\* the text denotes a number below lo or above hi
OutsideRange(s, lo, hi) ==
  /\ DenotesNumber(s)
  /\ \/ Denoted(s)[1] < lo * Pow10(Denoted(s)[2])
     \/ Denoted(s)[1] > hi * Pow10(Denoted(s)[2])

\* the text denotes a number below zero
Negative(s) == DenotesNumber(s) /\ Denoted(s)[1] < 0

\* every stored value lies in the range declared for its field
StoredInRange ==
  /\ \A v \in db.listing_version :
       /\ v.floor # Null => (v.floor[1] >= FloorLo /\ v.floor[1] <= FloorHi)
       /\ \A f \in {"price", "area", "site_area", "terrace_area"} :
            v[f] # Null => v[f][1][1] >= 0
       /\ \A f \in {"room_count", "balcony_count", "terrace_count"} :
            v[f] # Null => v[f][1] >= 0
  /\ \A l \in DOMAIN db.listing :
       db.listing[l].build_year # Null =>
         /\ db.listing[l].build_year[1] >= YearLo
         /\ db.listing[l].build_year[1] <= YearHi

\* ---------------------------------------------------------------------------
\* C33  Parsed values stay in their declared ranges: every stored version has
\* floor unknown or an integer in [-5, 300]; price, the areas and the counts
\* unknown or >= 0; every stored listing has build_year unknown or an integer
\* in [1800, 2100]; a value outside its range is stored as unknown.
\* The last part as a property of a committed load: the listing upserted from
\* a row whose year is a number outside [1800, 2100] has no build_year, and
\* the version opened from a row has no floor when the row's floor is a
\* number outside [-5, 300] and no price, area or count where the row's is a
\* number below zero.
C33_ParsedValuesInRange ==
  /\ StoredInRange
  /\ pc = "committed" =>
       \A i \in DOMAIN batch :
         /\ (Resolves(Staged[batch[i]])
               /\ OutsideRange(AllRows[batch[i]].build_year, YearLo, YearHi)) =>
              \A y \in ListingRows(db, Staged[batch[i]].listing_id) :
                 y[2].build_year = Null
         /\ \A w \in OpenedByRun :
              i \in SourceRows(w) =>
                /\ OutsideRange(AllRows[batch[i]].floor, FloorLo, FloorHi) =>
                     w.floor = Null
                /\ \A f \in FactFields \ {"floor"} :
                     Negative(AllRows[batch[i]][f]) => w[f] = Null

\* listing l had an open version when this run started, the batch has rows
\* of l, all of them stamped earlier than that version starts, and one of
\* them differs from it
StampedEarlier(l) ==
  \E v \in OpenVersions(pre.listing_version, l) :
     /\ BatchRowsOf(l) # {}
     /\ \A i \in BatchRowsOf(l) : EffectiveTs(i) < v.valid_from
     /\ \E i \in BatchRowsOf(l) : FactsDiffer(v, Staged[batch[i]])

\* ---------------------------------------------------------------------------
\* C34  If a listing's incoming fact differs from its open version but the
\* incoming effective timestamp is earlier than the open version's
\* valid_from, the load writes nothing to that listing's versions: the open
\* version stays open and unchanged, no new version is inserted, and the load
\* still succeeds.
\* A committed load leaves the versions of such a listing as they were, and
\* a run whose rows all belong to such listings does not raise in the SCD2
\* step on a constraint of listing_version.
C34_EarlierChangeWritesNothing ==
  /\ pc = "committed" =>
       \A l \in DOMAIN pre.listing :
          StampedEarlier(l) =>
            VersionsOf(db.listing_version, l) = VersionsOf(pre.listing_version, l)
  /\ (pc = "failed" /\ failedAt = "scd2" /\ cause = "conflict") =>
       \E i \in DOMAIN batch :
          \A l \in DOMAIN pre.listing : ~(i \in BatchRowsOf(l) /\ StampedEarlier(l))

\* a committed load of a changed price stamped before the open version
\* starts, which left the one open version of the listing in place
C34_Witness ==
  /\ pc = "committed"
  /\ \E l \in DOMAIN pre.listing :
       /\ StampedEarlier(l)
       /\ \E i \in BatchRowsOf(l) : \E v \in OpenVersions(db.listing_version, l) :
            /\ Staged[batch[i]].price # v.price
            /\ EffectiveTs(i) < v.valid_from
       /\ Cardinality(VersionsOf(db.listing_version, l)) = 1

\* ---------------------------------------------------------------------------
\* C35  After any sequence of completed loads every listing that has at
\* least one version has exactly one open version: whenever a load closes a
\* listing's open version it also inserts a new open version for that
\* listing in the same transaction.
\* In every state the committed tables hold exactly one open version for
\* each listing that has a version, and the versions a run closed are each
\* matched by an open version of the same listing that the run inserted,
\* starting where the closed one ends.
C35_ExactlyOneOpenVersion ==
  /\ \A l \in DOMAIN db.listing :
       VersionsOf(db.listing_version, l) # {} =>
         Cardinality(OpenVersions(db.listing_version, l)) = 1
  /\ \A v \in ClosedByRun :
       \E w \in OpenedByRun :
          /\ w.listing_id = v.listing_id
          /\ [v EXCEPT !.valid_to = Some(w.valid_from)] \in db.listing_version

\* a completed load that closed the open version of a listing with a history
\* of two versions and opened the next one
C35_Witness ==
  /\ pc = "complete"
  /\ \E v \in ClosedByRun :
       /\ Cardinality(VersionsOf(pre.listing_version, v.listing_id)) = 2
       /\ Cardinality(VersionsOf(db.listing_version, v.listing_id)) = 3
       /\ Cardinality(OpenVersions(db.listing_version, v.listing_id)) = 1

\* no row of the batch with the business key of row i resolves its dimension
\* codes and location
KeyUnresolved(i) ==
  \A j \in DOMAIN batch :
     Staged[batch[j]].listing_id = Staged[batch[i]].listing_id
       => ~Resolves(Staged[batch[j]])

\* ---------------------------------------------------------------------------
\* C36  For a batch row whose dimension codes do not resolve but whose
\* business key already has a Listing from an earlier load, the Listing
\* master row is left unchanged, while the description step and the SCD2
\* step still process the row (the description may be replaced and a new
\* version opened).
\* In a committed load, for such a row i of listing l: the row of l in
\* listing is as before; when row i carries a description, the stored
\* description of l comes from the batch and is no shorter than that of
\* row i; when row i is the only row of l, differs from the open version and
\* is stamped later than it, that version is closed and the version of row i
\* is opened.
C36_UnresolvedRowStillProcessed ==
  pc = "committed" =>
    \A i \in DOMAIN batch : \A l \in DOMAIN pre.listing :
      (i \in BatchRowsOf(l) /\ KeyUnresolved(i)) =>
        /\ db.listing[l] = pre.listing[l]
        /\ i \in DescribedRowsOf(l) =>
             \E d \in DescriptionsOf(db, l) :
                /\ \E j \in DescribedRowsOf(l) :
                      d.body = btrim(AllRows[batch[j]].description_fr)
                /\ Len(d.body) >= Len(btrim(AllRows[batch[i]].description_fr))
        /\ \A v \in OpenVersions(pre.listing_version, l) :
             (/\ BatchRowsOf(l) = {i}
              /\ FactsDiffer(v, Staged[batch[i]])
              /\ EffectiveTs(i) > v.valid_from) => OpenedOne(l, i, v)

\* a committed load of one row with a zip that does not resolve, of a
\* listing stored before: the master row is the same, the description was
\* replaced by the row's and the row's version was opened
C36_Witness ==
  /\ pc = "committed"
  /\ \E i \in DOMAIN batch : \E l \in DOMAIN pre.listing :
       /\ i \in BatchRowsOf(l) /\ KeyUnresolved(i)
       /\ AllRows[batch[i]].zipcode = <<"A", "B", "C", "D", "E">>
       /\ db.listing[l] = pre.listing[l]
       /\ \E d \in DescriptionsOf(pre, l) : \E e \in DescriptionsOf(db, l) :
            d.body # e.body /\ e.body = btrim(AllRows[batch[i]].description_fr)
       /\ \E v \in OpenVersions(pre.listing_version, l) : OpenedOne(l, i, v)

\* ---------------------------------------------------------------------------
\* C37  A load never deletes or blanks a stored description: for a listing
\* whose batch rows all have an empty or missing description, or that is
\* absent from the batch, the listing_description row is unchanged.
\* No step removes a description row or leaves one with an empty body, and
\* after the transaction of a run the description of every listing for which
\* the batch carried no non-empty description is the one stored before.
C37_DescriptionNeverBlanked ==
  /\ [](\A d \in db.listing_description : d.body # <<>>)
  /\ [][\A d \in db.listing_description :
          \E e \in db'.listing_description : e.listing_id = d.listing_id]_vars
  /\ [](staged =>
          \A l \in DOMAIN db.listing :
             DescribedRowsOf(l) = {} => DescriptionsOf(db, l) = DescriptionsOf(pre, l))

\* a committed load whose batch carried only a blank description for a
\* listing with a stored description, which it kept
C37_Witness ==
  /\ pc = "committed"
  /\ \E l \in DOMAIN pre.listing :
       /\ \E i \in BatchRowsOf(l) : AllRows[batch[i]].description_fr = <<" ">>
       /\ DescribedRowsOf(l) = {}
       /\ DescriptionsOf(pre, l) # {}
       /\ DescriptionsOf(db, l) = DescriptionsOf(pre, l)

====
